---------------------------- MODULE Spec2Model ----------------------------
(***************************************************************************)
(* Model of the CSV import/export layer (parseCSV, parseComponentCSV,      *)
(* parseAccessoryCSV, parseVMCSV, convertCSVTo*, convertToCSV) and of the  *)
(* IAM accounts page (parseCSVData, handleExportCSV, handleSubmit, ...).   *)
(*                                                                         *)
(* JavaScript strings are TLA+ strings; a character is a string of length  *)
(* one (SubSeq(s, i, i)).  A JavaScript object is a function from property *)
(* names to values; a property that was never assigned is outside the      *)
(* function's DOMAIN (undefined).  A value of type `string | null` is a    *)
(* sequence of at most one string: <<>> is null, <<s>> is the string s.    *)
(***************************************************************************)
EXTENDS Integers, Sequences, FiniteSets, TLC

(***************************************************************************)
(* Bounds of the model.                                                    *)
(***************************************************************************)
\* separators (commas and newlines) that may be typed after the header row
MaxSeparators == 4

\* virtual machines in the list handed to convertToCSV
MaxVMs == 2
\* IAM accounts in the list the page holds
MaxAccounts == 2
\* create/update requests the page may send
MaxRequests == 2
\* toasts the page may show
MaxToasts == 2
\* runs of handleImportCSV
MaxImports == 2
\* records in a list handed to a convertCSVTo* function
MaxRecords == 2
\* pages of the longest list the pagination bar is drawn for
MaxPages == 10
\* accounts of the longest list the table shows
MaxListed == 11
\* data rows of a file handed to importDataFromFile
MaxRows == 3
\* GET /api/iam-accounts requests the query may send
MaxFetches == 4
\* create, update, delete and import operations the page starts when all of its
\* handlers are in play
MaxOperations == 2

VARIABLES
    importType,   \* which importer reads the file: importDataFromFile's importType, or "iam"
    csvContent,   \* the text of the file
    parsed,       \* outcome of the parser applied to csvContent, NotParsed before
    data,         \* importDataFromFile's `data`: the converted records
    vms,          \* the VirtualMachine list handed to convertToCSV
    iamAccounts,  \* the page's account list (the query data)
    searchTerm, statusFilter, platformFilter, projectAccountFilter,
    currentPage,  \* the page of the table that is shown
    toasts,       \* toasts shown so far
    isAddDialogOpen,  \* the add/edit dialog is open
    accountToEdit,    \* IAMAccount | null
    formData,         \* the form's fields
    requests,         \* create/update requests sent so far, each pending, ok or failed
    invalidations,    \* invalidateQueries calls for ['/api/iam-accounts']
    queryStatus,         \* the account list query: 'fetching' | 'success' | 'error'
    failureCount,        \* failed attempts of the fetch that is running
    getsSent,            \* GET /api/iam-accounts requests sent so far
    accountToDelete,     \* IAMAccount | null: the account of the delete confirmation
    isImportDialogOpen,  \* the import dialog is open
    importFile,          \* File | null: the file chosen in the import dialog
    importProgress,
    importStatus,        \* 'idle' | 'uploading' | 'success' | 'error'
    imports,             \* the runs of handleImportCSV, each with its position
    upload               \* the call of importDataFromFile: its file, position and requests

fileVars   == <<importType, csvContent, parsed, data>>
filterVars == <<searchTerm, statusFilter, platformFilter, projectAccountFilter, currentPage>>
queryVars  == <<queryStatus, failureCount, getsSent>>
formVars   == <<isAddDialogOpen, accountToEdit, formData>>
pageVars   == <<formVars, requests, invalidations>>
importVars == <<isImportDialogOpen, importFile, importProgress, importStatus, imports>>
\* what the importers and exporters of the CSV layer leave alone
uiVars     == <<pageVars, accountToDelete, importVars>>
\* what the add/edit dialog leaves alone
nonDialogVars == <<fileVars, vms, iamAccounts, filterVars, queryVars, upload, accountToDelete, importVars>>
vars == <<fileVars, vms, iamAccounts, filterVars, queryVars, upload, toasts, pageVars,
         accountToDelete,
         importVars>>

(***************************************************************************)
(* String primitives of the JavaScript runtime that the code relies on.    *)
(***************************************************************************)
CharAt(s, i) == SubSeq(s, i, i)

includes(s, c) == \E i \in 1..Len(s) : CharAt(s, i) = c

IndexOf(s, c) == CHOOSE i \in 1..Len(s) :
                    CharAt(s, i) = c /\ \A j \in 1..(i - 1) : CharAt(s, j) # c

\* String.prototype.split with a one-character separator
RECURSIVE split(_, _)
split(s, sep) ==
    IF ~includes(s, sep) THEN <<s>>
    ELSE LET i == IndexOf(s, sep)
         IN  <<SubSeq(s, 1, i - 1)>> \o split(SubSeq(s, i + 1, Len(s)), sep)

\* Array.prototype.join
RECURSIVE join(_, _)
join(cells, sep) ==
    IF Len(cells) = 0 THEN ""
    ELSE IF Len(cells) = 1 THEN cells[1]
    ELSE cells[1] \o sep \o join(Tail(cells), sep)

WhiteSpace == {" ", "\t", "\n", "\r"}

\* String.prototype.trim
trim(s) ==
    LET keep == {i \in 1..Len(s) : CharAt(s, i) \notin WhiteSpace}
    IN  IF keep = {} THEN ""
        ELSE SubSeq(s, CHOOSE i \in keep : \A j \in keep : i <= j,
                       CHOOSE i \in keep : \A j \in keep : i >= j)

LowerChar(c) ==
    CASE c = "A" -> "a" [] c = "B" -> "b" [] c = "C" -> "c" [] c = "D" -> "d"
      [] c = "E" -> "e" [] c = "F" -> "f" [] c = "G" -> "g" [] c = "H" -> "h"
      [] c = "I" -> "i" [] c = "J" -> "j" [] c = "K" -> "k" [] c = "L" -> "l"
      [] c = "M" -> "m" [] c = "N" -> "n" [] c = "O" -> "o" [] c = "P" -> "p"
      [] c = "Q" -> "q" [] c = "R" -> "r" [] c = "S" -> "s" [] c = "T" -> "t"
      [] c = "U" -> "u" [] c = "V" -> "v" [] c = "W" -> "w" [] c = "X" -> "x"
      [] c = "Y" -> "y" [] c = "Z" -> "z" [] OTHER -> c

\* String.prototype.toLowerCase
RECURSIVE toLowerCase(_)
toLowerCase(s) ==
    IF s = "" THEN ""
    ELSE IF Len(s) = 1 THEN LowerChar(s)
    ELSE LET mid == Len(s) \div 2
         IN  toLowerCase(SubSeq(s, 1, mid)) \o toLowerCase(SubSeq(s, mid + 1, Len(s)))

\* value.replace(/^"(.*)"$/, '$1'): `.` matches no line terminator
StripQuotes(s) ==
    IF /\ Len(s) >= 2
       /\ CharAt(s, 1) = "\""
       /\ CharAt(s, Len(s)) = "\""
       /\ \A i \in 2..(Len(s) - 1) : CharAt(s, i) \notin {"\n", "\r"}
    THEN SubSeq(s, 2, Len(s) - 1)
    ELSE s

Has(obj, k) == k \in DOMAIN obj

\* mutant of Falsy: only a property that was never assigned counts as missing
UndefinedOnly(obj, k) == ~Has(obj, k)

\* !obj[k] for a string-valued property: undefined and '' are falsy
Falsy(obj, k) == ~Has(obj, k) \/ obj[k] = ""

EmptyObject == [k \in {} |-> ""]

(***************************************************************************)
(* Outcome of a parser: the records it returns, or the error it throws.    *)
(***************************************************************************)
NoError == [msg |-> "", line |-> 0, n |-> 0, m |-> 0, detail |-> <<>>]

Return(records) == [threw |-> FALSE, error |-> NoError, records |-> records]

Throw(msg, line, n, m, detail) ==
    [threw   |-> TRUE,
     error   |-> [msg |-> msg, line |-> line, n |-> n, m |-> m, detail |-> detail],
     records |-> <<>>]

NotParsed == [threw |-> FALSE, error |-> [NoError EXCEPT !.msg = "not parsed"], records |-> <<>>]

ErrTooFewLines == "CSV file must contain at least a header row and one data row"
ErrMissingHeaders == "CSV file is missing required headers"
ErrValueCount == "Line has a number of values different from the header's columns"
ErrMissingValues == "Line is missing required values"
ErrVMMissingField == "Line: Missing required field(s)"
ErrNoVMRecords == "No valid VM records found in CSV file"

\* mutant of TooFewLines: the bound off by one
TooFewLinesOffByOne(lines) == Len(lines) < 1

\* lines.length < 2
TooFewLines(lines) == Len(lines) < 2

\* mutant of LowerTrim: the header is trimmed but keeps its letter case
TrimOnly(header) == trim(header)

\* lines[0].split(',').map(header => header.trim().toLowerCase())
LowerTrim(header) == toLowerCase(trim(header))
ParseHeaders(line) ==
    LET cells == split(line, ",") IN [i \in 1..Len(cells) |-> LowerTrim(cells[i])]

\* requiredHeaders.filter(header => !headers.includes(header))
MissingHeaders(requiredHeaders, headers) ==
    SelectSeq(requiredHeaders, LAMBDA h : \A i \in 1..Len(headers) : headers[i] # h)

\* The object that headers.forEach builds.  fields[i] is what the switch does with
\* header i: <<property>>, or <<>> for no assignment; the indices in `idx` are the
\* ones that reach the switch; a later assignment overwrites an earlier one.
RowObject(fields, values, idx, start) ==
    LET hit   == {i \in idx : fields[i] # <<>>}
        props == {fields[i][1] : i \in hit}
        last(p) == CHOOSE i \in hit :
                      /\ fields[i][1] = p
                      /\ \A j \in hit : fields[j][1] = p => j <= i
    IN  [p \in props |-> values[last(p)]] @@ start

(***************************************************************************)
(* parseCSV: the asset parser.                                             *)
(***************************************************************************)
\* the switch on the header; an unknown header is stored under its own name
AssetField(header) ==
    CASE header \in {"knoxid", "knox_id", "knox id"} -> <<"knoxId">>
      [] header \in {"serialnumber", "serial_number", "serial number", "serial"}
            -> <<"serialNumber">>
      [] header \in {"assettag", "asset tag", "asset_tag", "tag"} -> <<"assetTag">>
      [] header \in {"name", "asset name", "asset_name", "devicename", "device_name",
                     "device name"} -> <<"name">>
      [] header \in {"category", "type", "device type", "device_type"} -> <<"category">>
      [] header \in {"status", "state"} -> <<"status">>
      [] header \in {"condition", "asset_condition", "asset condition"} -> <<"condition">>
      [] header \in {"model", "model_number", "model number"} -> <<"model">>
      [] header \in {"manufacturer", "brand", "make", "vendor"} -> <<"manufacturer">>
      [] header \in {"purchasedate", "purchaseDate", "purchase_date", "purchase date",
                     "acquired_date", "acquired date", "dateacquired", "date_acquired"}
            -> <<"purchaseDate">>
      [] header \in {"purchasecost", "purchase_cost", "purchase cost", "cost", "price",
                     "value"} -> <<"purchaseCost">>
      [] header \in {"location", "site", "office", "building", "room"} -> <<"location">>
      [] header \in {"ipaddress", "ip address", "ip_address", "ip"} -> <<"ipAddress">>
      [] header \in {"macaddress", "mac address", "mac_address", "mac"} -> <<"macAddress">>
      [] header \in {"ostype", "os type", "os_type", "os", "operating_system",
                     "operating system"} -> <<"osType">>
      [] header \in {"department", "dept", "division", "unit"} -> <<"department">>
      [] header \in {"description", "notes", "comments", "remarks"} -> <<"description">>
      [] header \in {"warranty", "warranty_date", "warranty date", "warranty_expiry",
                     "warranty expiry"} -> <<"warranty">>
      [] header \in {"supplier", "vendor_name", "vendor name"} -> <<"supplier">>
      [] OTHER -> <<header>>

\* lines[i].split(',').map(value => value.trim().replace(/^"(.*)"$/, '$1'))
AssetValue(value) == StripQuotes(trim(value))

\* while (values.length < headers.length) values.push(''); values.splice(headers.length)
FitToHeaders(values, n) ==
    [i \in 1..n |-> IF i <= Len(values) THEN values[i] ELSE ""]

\* mutant of AssetSkipsValue: 'N/A' is stored like any other value
AssetSkipsEmptyOnly(value) == value = ""

\* if (!value || value === '' || value === 'N/A') return;
AssetSkipsValue(value) == value = "" \/ value = "N/A"

\* one data line: <<asset>>, or <<>> for a line that is skipped
AssetOfLine(headers, line) ==
    IF trim(line) = "" THEN <<>>
    ELSE LET cells  == split(line, ",")
             values == FitToHeaders([i \in 1..Len(cells) |-> AssetValue(cells[i])],
                                    Len(headers))
             idx    == {i \in 1..Len(headers) : ~AssetSkipsValue(values[i])}
         IN  IF idx = {} THEN <<>>
             ELSE <<RowObject([i \in 1..Len(headers) |-> AssetField(headers[i])],
                                 values, idx, EmptyObject)>>

RECURSIVE AssetRows(_, _, _)
AssetRows(headers, lines, i) ==
    IF i > Len(lines) THEN <<>>
    ELSE AssetOfLine(headers, lines[i]) \o AssetRows(headers, lines, i + 1)

parseCSV(content) ==
    LET lines == split(content, "\n")
    IN  IF TooFewLines(lines)
        THEN Throw(ErrTooFewLines, 0, 0, 0, <<>>)
        ELSE Return(AssetRows(ParseHeaders(lines[1]), lines, 2))

(***************************************************************************)
(* parseComponentCSV and parseAccessoryCSV.                                *)
(***************************************************************************)
ComponentField(header) ==
    CASE header = "name" -> <<"name">>
      [] header = "category" -> <<"category">>
      [] header = "quantity" -> <<"quantity">>
      [] header \in {"serialnumber", "serial number", "serial_number"} -> <<"serialNumber">>
      [] header = "manufacturer" -> <<"manufacturer">>
      [] header = "model" -> <<"model">>
      [] header = "notes" -> <<"notes">>
      [] OTHER -> <<>>

AccessoryField(header) ==
    CASE header = "name" -> <<"name">>
      [] header = "category" -> <<"category">>
      [] header = "status" -> <<"status">>
      [] header = "quantity" -> <<"quantity">>
      [] header \in {"serialnumber", "serial number", "serial_number"} -> <<"serialNumber">>
      [] header = "manufacturer" -> <<"manufacturer">>
      [] header = "model" -> <<"model">>
      [] header = "notes" -> <<"notes">>
      [] OTHER -> <<>>

\* lines[i].split(',').map(value => value.trim())
TrimmedValues(line) ==
    LET cells == split(line, ",") IN [i \in 1..Len(cells) |-> trim(cells[i])]

\* mutant of ComponentRows: a bad row ends the loop and the rows before it are returned
RECURSIVE ComponentRowsPartial(_, _, _, _)
ComponentRowsPartial(headers, lines, i, components) ==
    IF i > Len(lines) THEN Return(components)
    ELSE IF trim(lines[i]) = "" THEN ComponentRowsPartial(headers, lines, i + 1, components)
    ELSE LET values == TrimmedValues(lines[i])
         IN  IF Len(values) # Len(headers)
             THEN Return(components)
             ELSE LET component == RowObject(
                                      [j \in 1..Len(headers) |-> ComponentField(headers[j])],
                                      values, 1..Len(headers), EmptyObject)
                  IN  IF Falsy(component, "name") \/ Falsy(component, "category")
                      THEN Return(components)
                      ELSE ComponentRowsPartial(headers, lines, i + 1,
                                                Append(components, component))

\* the data-row loop of parseComponentCSV; line i of the file is lines[i]
RECURSIVE ComponentRows(_, _, _, _)
ComponentRows(headers, lines, i, components) ==
    IF i > Len(lines) THEN Return(components)
    ELSE IF trim(lines[i]) = "" THEN ComponentRows(headers, lines, i + 1, components)
    ELSE LET values == TrimmedValues(lines[i])
         IN  IF Len(values) # Len(headers)
             THEN Throw(ErrValueCount, i, Len(values), Len(headers), <<>>)
             ELSE LET component == RowObject(
                                      [j \in 1..Len(headers) |-> ComponentField(headers[j])],
                                      values, 1..Len(headers), EmptyObject)
                  IN  IF Falsy(component, "name") \/ Falsy(component, "category")
                      THEN Throw(ErrMissingValues, i, 0, 0, <<>>)
                      ELSE ComponentRows(headers, lines, i + 1,
                                         Append(components, component))

parseComponentCSV(content) ==
    LET lines == split(content, "\n")
    IN  IF TooFewLines(lines)
        THEN Throw(ErrTooFewLines, 0, 0, 0, <<>>)
        ELSE LET headers == ParseHeaders(lines[1])
                 missingHeaders == MissingHeaders(<<"name", "category">>, headers)
             IN  IF Len(missingHeaders) > 0
                 THEN Throw(ErrMissingHeaders, 0, 0, 0, missingHeaders)
                 ELSE ComponentRows(headers, lines, 2, <<>>)

RECURSIVE AccessoryRows(_, _, _, _)
AccessoryRows(headers, lines, i, accessories) ==
    IF i > Len(lines) THEN Return(accessories)
    ELSE IF trim(lines[i]) = "" THEN AccessoryRows(headers, lines, i + 1, accessories)
    ELSE LET values == TrimmedValues(lines[i])
         IN  IF Len(values) # Len(headers)
             THEN Throw(ErrValueCount, i, Len(values), Len(headers), <<>>)
             ELSE LET accessory == RowObject(
                                      [j \in 1..Len(headers) |-> AccessoryField(headers[j])],
                                      values, 1..Len(headers), EmptyObject)
                  IN  IF Falsy(accessory, "name") \/ Falsy(accessory, "category")
                      THEN Throw(ErrMissingValues, i, 0, 0, <<>>)
                      ELSE AccessoryRows(headers, lines, i + 1,
                                         Append(accessories, accessory))

parseAccessoryCSV(content) ==
    LET lines == split(content, "\n")
    IN  IF TooFewLines(lines)
        THEN Throw(ErrTooFewLines, 0, 0, 0, <<>>)
        ELSE LET headers == ParseHeaders(lines[1])
                 missingHeaders == MissingHeaders(<<"name", "category">>, headers)
             IN  IF Len(missingHeaders) > 0
                 THEN Throw(ErrMissingHeaders, 0, 0, 0, missingHeaders)
                 ELSE AccessoryRows(headers, lines, 2, <<>>)

(***************************************************************************)
(* parseVMCSV.                                                             *)
(***************************************************************************)
VMField(header) ==
    CASE header \in {"vmid", "vm_id", "vm id"} -> <<"vmId">>
      [] header \in {"vmname", "vm_name", "vm name", "name"} -> <<"vmName">>
      [] header \in {"vmstatus", "vm_status", "vm status", "status"} -> <<"vmStatus">>
      [] header \in {"vmip", "vm_ip", "vm ip", "ip", "ipaddress", "ip_address"} -> <<"vmIp">>
      [] header \in {"internetaccess", "internet_access", "internet access", "internet"}
            -> <<"internetAccess">>
      [] header \in {"vmos", "vm_os", "vm os", "os", "operating_system"} -> <<"vmOs">>
      [] header \in {"vmosversion", "vm_os_version", "vm os version", "os_version",
                     "osversion"} -> <<"vmOsVersion">>
      [] header = "hypervisor" -> <<"hypervisor">>
      [] header \in {"hostname", "host_name", "host name"} -> <<"hostname">>
      [] header \in {"hostmodel", "host_model", "host model", "model"} -> <<"hostModel">>
      [] header \in {"hostip", "host_ip", "host ip"} -> <<"hostIp">>
      [] header \in {"hostos", "host_os", "host os"} -> <<"hostOs">>
      [] header = "rack" -> <<"rack">>
      [] header \in {"deployedby", "deployed_by", "deployed by"} -> <<"deployedBy">>
      [] header = "user" -> <<"user">>
      [] header = "department" -> <<"department">>
      [] header \in {"startdate", "start_date", "start date"} -> <<"startDate">>
      [] header \in {"enddate", "end_date", "end date"} -> <<"endDate">>
      [] header \in {"jiraticket", "jira_ticket", "jira ticket", "ticket"} -> <<"jiraTicket">>
      [] header \in {"remarks", "notes", "description"} -> <<"remarks">>
      [] OTHER -> <<>>

\* const requiredHeaders = ['vmid', 'vmname', 'hypervisor']
VMRequiredHeaders == <<"vmid", "vmname", "hypervisor">>

\* `${vm.vmId}` in the error message
Shown(obj, k) == IF Has(obj, k) THEN obj[k] ELSE "undefined"

RECURSIVE VMRows(_, _, _, _)
VMRows(headers, lines, i, rows) ==
    IF i > Len(lines)
    THEN IF Len(rows) = 0 THEN Throw(ErrNoVMRecords, 0, 0, 0, <<>>) ELSE Return(rows)
    ELSE IF trim(lines[i]) = "" THEN VMRows(headers, lines, i + 1, rows)
    ELSE LET values == TrimmedValues(lines[i])
         IN  IF Len(values) # Len(headers)
             THEN Throw(ErrValueCount, i, Len(values), Len(headers), <<>>)
             ELSE LET vm == RowObject([j \in 1..Len(headers) |-> VMField(headers[j])],
                                      values, 1..Len(headers), EmptyObject)
                  IN  IF Falsy(vm, "vmId") \/ Falsy(vm, "vmName") \/ Falsy(vm, "hypervisor")
                      THEN Throw(ErrVMMissingField, i, 0, 0,
                                 <<Shown(vm, "vmId"), Shown(vm, "vmName"),
                                   Shown(vm, "hypervisor")>>)
                      ELSE VMRows(headers, lines, i + 1, Append(rows, vm))

parseVMCSV(content) ==
    LET lines == split(content, "\n")
    IN  IF TooFewLines(lines)
        THEN Throw(ErrTooFewLines, 0, 0, 0, <<>>)
        ELSE LET headers == ParseHeaders(lines[1])
                 missingHeaders == MissingHeaders(VMRequiredHeaders, headers)
             IN  IF Len(missingHeaders) > 0
                 THEN Throw(ErrMissingHeaders, 0, 0, 0, missingHeaders)
                 ELSE VMRows(headers, lines, 2, <<>>)

(***************************************************************************)
(* parseCSVData: the parser of the IAM accounts page.                      *)
(***************************************************************************)
\* mutant of AccountField: the aliases written with a space are not recognised
AccountFieldNoSpacedAliases(header) ==
    CASE header = "requestor" -> <<"requestor">>
      [] header \in {"knoxid", "knox_id"} -> <<"knoxId">>
      [] header \in {"permission", "permission/iam/scop"} -> <<"permission">>
      [] header \in {"durationstartdate", "duration_start_date"} -> <<"durationStartDate">>
      [] header \in {"durationenddate", "duration_end_date"} -> <<"durationEndDate">>
      [] header \in {"cloudplatform", "cloud_platform"} -> <<"cloudPlatform">>
      [] header \in {"projectaccounts", "project_accounts"} -> <<"projectAccounts">>
      [] header \in {"approvalid", "approval_id"} -> <<"approvalId">>
      [] header \in {"remarks", "notes"} -> <<"remarks">>
      [] header = "status" -> <<"status">>
      [] OTHER -> <<>>

AccountField(header) ==
    CASE header = "requestor" -> <<"requestor">>
      [] header \in {"knoxid", "knox_id", "knox id"} -> <<"knoxId">>
      [] header \in {"permission", "permission/iam/scop"} -> <<"permission">>
      [] header \in {"durationstartdate", "duration_start_date", "duration start date"}
            -> <<"durationStartDate">>
      [] header \in {"durationenddate", "duration_end_date", "duration end date"}
            -> <<"durationEndDate">>
      [] header \in {"cloudplatform", "cloud_platform", "cloud platform"}
            -> <<"cloudPlatform">>
      [] header \in {"projectaccounts", "project_accounts", "project accounts"}
            -> <<"projectAccounts">>
      [] header \in {"approvalid", "approval_id", "approval id"} -> <<"approvalId">>
      [] header \in {"remarks", "notes"} -> <<"remarks">>
      [] header = "status" -> <<"status">>
      [] OTHER -> <<>>

\* line.split(',').map(v => v.replace(/^"(.*)"$/, '$1').trim())
AccountValue(v) == trim(StripQuotes(v))

\* const value = values[index] || ''; and for status: value || 'active'
AccountValues(headers, values) ==
    [i \in 1..Len(headers) |->
        LET value == IF i <= Len(values) THEN values[i] ELSE ""
        IN  IF headers[i] = "status" /\ value = "" THEN "active" ELSE value]

\* one data line: <<account>>, or <<>> for a line that yields no account
AccountOfLine(headers, rawLine) ==
    LET line == trim(rawLine)
    IN  IF line = "" THEN <<>>
        ELSE LET cells   == split(line, ",")
                 values  == [i \in 1..Len(cells) |-> AccountValue(cells[i])]
                 account == RowObject([i \in 1..Len(headers) |-> AccountField(headers[i])],
                                      AccountValues(headers, values),
                                      1..Len(headers), [status |-> "active"])
             IN  IF \/ Falsy(account, "requestor") \/ Falsy(account, "knoxId")
                    \/ Falsy(account, "permission") \/ Falsy(account, "cloudPlatform")
                 THEN <<>>
                 ELSE <<account>>

RECURSIVE AccountRows(_, _, _)
AccountRows(headers, lines, i) ==
    IF i > Len(lines) THEN <<>>
    ELSE AccountOfLine(headers, lines[i]) \o AccountRows(headers, lines, i + 1)

\* mutant of parseCSVData: a file of which no row remains is refused
parseCSVDataNeedsRow(content) ==
    LET lines == split(content, "\n")
    IN  IF TooFewLines(lines) \/ AccountRows(ParseHeaders(lines[1]), lines, 2) = <<>>
        THEN Throw(ErrTooFewLines, 0, 0, 0, <<>>)
        ELSE Return(AccountRows(ParseHeaders(lines[1]), lines, 2))

parseCSVData(content) ==
    LET lines == split(content, "\n")
    IN  IF TooFewLines(lines)
        THEN Throw(ErrTooFewLines, 0, 0, 0, <<>>)
        ELSE Return(AccountRows(ParseHeaders(lines[1]), lines, 2))

(***************************************************************************)
(* The files the importers are given.  A file is empty, or starts as one  *)
(* of the header rows below and grows by typed separators and values.     *)
(***************************************************************************)
ImportTypes == {"assets", "components", "accessories", "vms", "iam"}

HeaderLines(t) ==
    CASE t = "assets"      -> {"", "Name,Foo", " Serial Number ,STATUS"}
      [] t = "components"  -> {"", "Name, CATEGORY ", "category,serial number"}
      [] t = "accessories" -> {"", "NAME,Category,status"}
      [] t = "vms"         -> {"", "VMID,VmName,Hypervisor", "vm_id,Name,hypervisor"}
      [] t = "iam"         -> {"", "Requestor,Knox ID,Permission/IAM/SCOP,Cloud Platform",
                               "requestor,knoxid,status"}

\* the values typed into the data rows of a file
TypedValues(t, content) ==
    IF t = "assets" /\ Len(content) >= 4 /\ SubSeq(content, 1, 4) = "Name" THEN {" a", "N/A"} ELSE {" a", "\"b\""}

\* separators typed after the header row
RECURSIVE CountSeparators(_)
CountSeparators(s) ==
    IF s = "" THEN 0
    ELSE (IF CharAt(s, 1) \in {",", "\n"} THEN 1 ELSE 0)
         + CountSeparators(SubSeq(s, 2, Len(s)))

DataPart(content) ==
    IF includes(content, "\n")
    THEN SubSeq(content, IndexOf(content, "\n"), Len(content))
    ELSE ""

LastChar(s) == CharAt(s, Len(s))

\* the parser that reads a file of the given type
ParserOf(t, content) ==
    CASE t = "assets"      -> parseCSV(content)
      [] t = "components"  -> parseComponentCSV(content)
      [] t = "accessories" -> parseAccessoryCSV(content)
      [] t = "vms"         -> parseVMCSV(content)
      [] t = "iam"         -> parseCSVData(content)

(***************************************************************************)
(* convertCSVToVMs and convertToCSV.                                       *)
(***************************************************************************)
\* csvVM.vmId || "N/A"
\* mutant of OrDefault: only an absent property gets the default
OrDefaultAbsentOnly(obj, k, default) == IF Has(obj, k) THEN obj[k] ELSE default

\* csvVM.vmId || "N/A"
OrDefault(obj, k, default) == IF Falsy(obj, k) THEN default ELSE obj[k]

\* mutant of InternetAccessOf: any non-empty text counts as true
InternetAccessTruthy(csvVM) == ~Falsy(csvVM, "internetAccess")

\* let internetAccess = false; if (csvVM.internetAccess) { ... }
InternetAccessOf(csvVM) ==
    IF Falsy(csvVM, "internetAccess") THEN FALSE
    ELSE toLowerCase(csvVM["internetAccess"]) \in {"true", "yes", "1"}

VMStringFields ==
    <<"vmId", "vmName", "vmStatus", "vmIp", "vmOs", "vmOsVersion", "hypervisor",
      "hostname", "hostModel", "hostIp", "hostOs", "rack", "deployedBy", "user",
      "department", "startDate", "endDate", "jiraTicket", "remarks">>

Range(xs) == {xs[i] : i \in 1..Len(xs)}

convertCSVToVM(csvVM) ==
    [k \in Range(VMStringFields) \cup {"internetAccess", "dateDeleted"} |->
        CASE k = "internetAccess" -> InternetAccessOf(csvVM)
          [] k = "dateDeleted"    -> <<>>
          [] k = "vmStatus"       -> OrDefault(csvVM, k, "Provisioning")
          [] OTHER                -> OrDefault(csvVM, k, "N/A")]

convertCSVToVMs(csvVMs) == [i \in 1..Len(csvVMs) |-> convertCSVToVM(csvVMs[i])]

\* csvAsset.assetTag || null
OrNull(obj, k) == IF Falsy(obj, k) THEN <<>> ELSE <<obj[k]>>

\* AssetStatus.AVAILABLE of @shared/schema
AssetStatusAVAILABLE == "available"

\* mutant of ConditionOf: the comparison forgets toLowerCase
ConditionCaseSensitive(csvAsset) ==
    IF Falsy(csvAsset, "condition") \/ trim(csvAsset["condition"]) = "" THEN "Good"
    ELSE LET conditionValue == trim(csvAsset["condition"])
         IN  CASE conditionValue \in {"bad", "poor", "damaged"} -> "Bad"
               [] conditionValue \in {"good", "excellent", "working"} -> "Good"
               [] OTHER -> conditionValue

\* let condition = 'Good'; if (csvAsset.condition && ...) { ... }
ConditionOf(csvAsset) ==
    IF Falsy(csvAsset, "condition") \/ trim(csvAsset["condition"]) = "" THEN "Good"
    ELSE LET conditionValue == trim(csvAsset["condition"])
         IN  CASE toLowerCase(conditionValue) \in {"bad", "poor", "damaged"} -> "Bad"
               [] toLowerCase(conditionValue) \in {"good", "excellent", "working"} -> "Good"
               [] OTHER -> conditionValue

AssetNullableFields ==
    {"assetTag", "name", "model", "purchaseDate", "manufacturer", "purchaseCost",
     "location", "knoxId", "ipAddress", "macAddress", "osType", "department", "notes"}

convertCSVToAsset(csvAsset) ==
    [k \in AssetNullableFields \cup {"serialNumber", "category", "status", "condition"} |->
        CASE k = "serialNumber" -> OrDefault(csvAsset, k, "")
          [] k = "category"     -> OrDefault(csvAsset, k, "Laptop")
          [] k = "status"       -> OrDefault(csvAsset, k, AssetStatusAVAILABLE)
          [] k = "condition"    -> ConditionOf(csvAsset)
          [] OTHER              -> OrNull(csvAsset, k)]

convertCSVToAssets(csvAssets) ==
    [i \in 1..Len(csvAssets) |-> convertCSVToAsset(csvAssets[i])]

\* a JavaScript number that parseInt can return: an integer or NaN
Num(n) == [nan |-> FALSE, int |-> n]
NaN == [nan |-> TRUE, int |-> 0]

DigitValue(c) ==
    CASE c = "0" -> 0 [] c = "1" -> 1 [] c = "2" -> 2 [] c = "3" -> 3 [] c = "4" -> 4
      [] c = "5" -> 5 [] c = "6" -> 6 [] c = "7" -> 7 [] c = "8" -> 8 [] c = "9" -> 9
      [] c \in {"a", "A"} -> 10 [] c \in {"b", "B"} -> 11 [] c \in {"c", "C"} -> 12
      [] c \in {"d", "D"} -> 13 [] c \in {"e", "E"} -> 14 [] c \in {"f", "F"} -> 15
      [] OTHER -> 99

\* length of the longest prefix of s made of digits of the radix
RECURSIVE DigitsPrefix(_, _)
DigitsPrefix(s, radix) ==
    IF s = "" \/ DigitValue(CharAt(s, 1)) >= radix THEN 0
    ELSE 1 + DigitsPrefix(SubSeq(s, 2, Len(s)), radix)

RECURSIVE DigitsValue(_, _)
DigitsValue(s, radix) ==
    IF s = "" THEN 0
    ELSE DigitsValue(SubSeq(s, 1, Len(s) - 1), radix) * radix
         + DigitValue(CharAt(s, Len(s)))

TrimStart(s) ==
    LET keep == {i \in 1..Len(s) : CharAt(s, i) \notin WhiteSpace}
    IN  IF keep = {} THEN ""
        ELSE SubSeq(s, CHOOSE i \in keep : \A j \in keep : i <= j, Len(s))

\* parseInt(text) without radix
parseInt(text) ==
    LET s        == TrimStart(text)
        negative == s # "" /\ CharAt(s, 1) = "-"
        signed   == s # "" /\ CharAt(s, 1) \in {"+", "-"}
        body     == IF signed THEN SubSeq(s, 2, Len(s)) ELSE s
        hex      == Len(body) >= 2 /\ SubSeq(body, 1, 2) \in {"0x", "0X"}
        radix    == IF hex THEN 16 ELSE 10
        rest     == IF hex THEN SubSeq(body, 3, Len(body)) ELSE body
        n        == DigitsPrefix(rest, radix)
        value    == DigitsValue(SubSeq(rest, 1, n), radix)
    IN  IF n = 0 THEN NaN
        ELSE Num(IF negative THEN 0 - value ELSE value)

\* csvComponent.quantity ? parseInt(csvComponent.quantity) : 1
QuantityOf(csvItem) ==
    IF Falsy(csvItem, "quantity") THEN Num(1) ELSE parseInt(csvItem["quantity"])

ImportedViaCSV == "Imported via CSV"

convertCSVToComponent(csvComponent) ==
    [name |-> csvComponent["name"], category |-> csvComponent["category"],
     description |-> <<>>, purchaseDate |-> <<>>, purchaseCost |-> <<>>,
     location |-> <<>>,
     serialNumber |-> OrNull(csvComponent, "serialNumber"),
     model |-> OrNull(csvComponent, "model"),
     manufacturer |-> OrNull(csvComponent, "manufacturer"),
     notes |-> OrDefault(csvComponent, "notes", ImportedViaCSV),
     quantity |-> QuantityOf(csvComponent)]

convertCSVToComponents(csvComponents) ==
    [i \in 1..Len(csvComponents) |-> convertCSVToComponent(csvComponents[i])]

\* AccessoryStatus of @shared/schema
AccessoryStatusAVAILABLE == "available"
AccessoryStatusBORROWED == "borrowed"
AccessoryStatusRETURNED == "returned"
AccessoryStatusDEFECTIVE == "defective"

\* s.includes(word)
IncludesText(s, word) ==
    \E i \in 1..(Len(s) - Len(word) + 1) : SubSeq(s, i, i + Len(word) - 1) = word

AccessoryStatusOf(csvAccessory) ==
    IF Falsy(csvAccessory, "status") THEN AccessoryStatusAVAILABLE
    ELSE LET statusLower == toLowerCase(csvAccessory["status"])
         IN  CASE IncludesText(statusLower, "borrowed") -> AccessoryStatusBORROWED
               [] ~IncludesText(statusLower, "borrowed")
                    /\ IncludesText(statusLower, "returned") -> AccessoryStatusRETURNED
               [] ~IncludesText(statusLower, "borrowed")
                    /\ ~IncludesText(statusLower, "returned")
                    /\ IncludesText(statusLower, "defective") -> AccessoryStatusDEFECTIVE
               [] OTHER -> AccessoryStatusAVAILABLE

convertCSVToAccessory(csvAccessory) ==
    [name |-> csvAccessory["name"], category |-> csvAccessory["category"],
     status |-> AccessoryStatusOf(csvAccessory),
     description |-> <<>>, purchaseDate |-> <<>>, purchaseCost |-> <<>>,
     location |-> <<>>,
     serialNumber |-> OrNull(csvAccessory, "serialNumber"),
     model |-> OrNull(csvAccessory, "model"),
     manufacturer |-> OrNull(csvAccessory, "manufacturer"),
     notes |-> OrDefault(csvAccessory, "notes", ImportedViaCSV),
     quantity |-> QuantityOf(csvAccessory),
     assignedTo |-> <<>>]

convertCSVToAccessories(csvAccessories) ==
    [i \in 1..Len(csvAccessories) |-> convertCSVToAccessory(csvAccessories[i])]

\* the column headers convertToCSV writes
VMExportHeaders ==
    <<"vmId", "vmName", "vmStatus", "vmIp", "internetAccess", "vmOs", "vmOsVersion",
      "hypervisor", "hostname", "hostModel", "hostIp", "hostOs", "rack",
      "deployedBy", "user", "department", "startDate", "endDate", "jiraTicket",
      "remarks">>

\* value.replace(/"/g, '""')
RECURSIVE DoubleQuotes(_)
DoubleQuotes(s) ==
    IF s = "" THEN ""
    ELSE (IF CharAt(s, 1) = "\"" THEN "\"\"" ELSE CharAt(s, 1))
         \o DoubleQuotes(SubSeq(s, 2, Len(s)))

\* a cell with a comma or a double quote is wrapped in quotes, inner quotes doubled
EscapeCell(cell) ==
    IF includes(cell, ",") \/ includes(cell, "\"")
    THEN "\"" \o DoubleQuotes(cell) \o "\""
    ELSE cell

\* one cell of convertToCSV's row
VMCell(vm, header) ==
    IF header = "internetAccess"
    THEN (IF vm[header] THEN "true" ELSE "false")
    ELSE EscapeCell(vm[header])

VMRow(vm) == join([i \in 1..Len(VMExportHeaders) |-> VMCell(vm, VMExportHeaders[i])], ",")

convertToCSV(vmList) ==
    IF Len(vmList) = 0 THEN ""
    ELSE join(<<join(VMExportHeaders, ",")>> \o [i \in 1..Len(vmList) |-> VMRow(vmList[i])], "\n")

(***************************************************************************)
(* The IAM page: filteredAccounts and handleExportCSV.                     *)
(***************************************************************************)
\* s.includes(sub) for a substring
Contains(s, sub) ==
    \E i \in 1..(Len(s) - Len(sub) + 1) : SubSeq(s, i, i + Len(sub) - 1) = sub

\* account.approvalId?.toLowerCase().includes(...) for a `string | null` property
NullableContains(opt, sub) == opt # <<>> /\ Contains(toLowerCase(opt[1]), sub)

MatchesSearch(account, term) ==
    \/ term = ""
    \/ Contains(toLowerCase(account.requestor), toLowerCase(term))
    \/ Contains(toLowerCase(account.knoxId), toLowerCase(term))
    \/ NullableContains(account.approvalId, toLowerCase(term))
    \/ Contains(toLowerCase(account.cloudPlatform), toLowerCase(term))
    \/ NullableContains(account.projectAccounts, toLowerCase(term))

MatchesFilters(account) ==
    /\ MatchesSearch(account, searchTerm)
    /\ statusFilter = "all" \/ account.status = statusFilter
    /\ platformFilter = "all" \/ account.cloudPlatform = platformFilter
    /\ projectAccountFilter = "all" \/ account.projectAccounts = <<projectAccountFilter>>

filteredAccounts == SelectSeq(iamAccounts, MatchesFilters)

\* useState(10); setItemsPerPage is never called
itemsPerPage == 10

\* Math.ceil(totalItems / itemsPerPage)
totalPages == (Len(filteredAccounts) + itemsPerPage - 1) \div itemsPerPage

\* filteredAccounts.slice(startIndex, endIndex)
paginatedAccounts ==
    LET startIndex == (currentPage - 1) * itemsPerPage
        endIndex   == startIndex + itemsPerPage
    IN  SubSeq(filteredAccounts, startIndex + 1,
               IF endIndex < Len(filteredAccounts) THEN endIndex ELSE Len(filteredAccounts))

\* the '...' entry of generatePageNumbers; a page number n is <<n>>
Ellipsis == <<>>

\* for (let i = a; i <= b; i++) pages.push(i)
PageRange(a, b) == [i \in 1..(IF b >= a THEN b - a + 1 ELSE 0) |-> <<a + i - 1>>]

\* mutant of LeadingEllipsis: the ellipsis after page 1 comes one page early
LeadingEllipsisEarly(page) == page > 2

\* if (currentPage > 3) pages.push('...')
LeadingEllipsis(page) == page > 3

\* pages.filter(...): an ellipsis stays unless it follows an ellipsis, a number stays
\* at its first occurrence
RECURSIVE FilterPages(_, _)
FilterPages(pages, index) ==
    IF index > Len(pages) THEN <<>>
    ELSE (IF pages[index] = Ellipsis
          THEN IF index = 1 \/ pages[index - 1] # Ellipsis THEN <<pages[index]>> ELSE <<>>
          ELSE IF \A j \in 1..(index - 1) : pages[j] # pages[index]
               THEN <<pages[index]>> ELSE <<>>)
         \o FilterPages(pages, index + 1)

PageNumbers(total, page) ==
    LET from  == IF page - 1 > 2 THEN page - 1 ELSE 2
        to    == IF page + 1 < total - 1 THEN page + 1 ELSE total - 1
        pages == IF total <= 5
                 THEN PageRange(1, total)
                 ELSE <<<<1>>>>
                      \o (IF LeadingEllipsis(page) THEN <<Ellipsis>> ELSE <<>>)
                      \o PageRange(from, to)
                      \o (IF page < total - 2 THEN <<Ellipsis>> ELSE <<>>)
                      \o <<<<total>>>>
    IN  FilterPages(pages, 1)

generatePageNumbers == PageNumbers(totalPages, currentPage)

\* the pages the pagination bar leads to: its page links, Previous and Next;
\* the bar is rendered when totalPages > 1
PageTargets ==
    IF totalPages > 1
    THEN {generatePageNumbers[i][1] :
             i \in {j \in 1..Len(generatePageNumbers) : generatePageNumbers[j] # Ellipsis}}
         \cup (IF currentPage > 1 THEN {currentPage - 1} ELSE {})
         \cup (IF currentPage < totalPages THEN {currentPage + 1} ELSE {})
    ELSE {}

\* the table body's row when paginatedAccounts is empty, <<>> when accounts are shown
EmptyTableText ==
    IF Len(paginatedAccounts) # 0 THEN <<>>
    ELSE IF Len(iamAccounts) = 0 THEN <<"No IAM accounts found">>
    ELSE <<"No accounts match the current filters">>

\* account.durationStartDate || '' for a `string | null` property
OrEmpty(opt) == IF opt = <<>> THEN "" ELSE opt[1]

csvHeaders ==
    <<"Requestor", "Knox ID", "Permission/IAM/SCOP", "Duration Start Date",
      "Duration End Date", "Cloud Platform", "Project Accounts", "Approval ID",
      "Remarks", "Status">>

\* one element of csvData
AccountCells(account) ==
    <<account.requestor, account.knoxId, account.permission,
      OrEmpty(account.durationStartDate), OrEmpty(account.durationEndDate),
      account.cloudPlatform, OrEmpty(account.projectAccounts),
      OrEmpty(account.approvalId), OrEmpty(account.remarks), account.status>>

AccountRow(account) ==
    LET row == AccountCells(account)
    IN  join([i \in 1..Len(row) |-> EscapeCell(row[i])], ",")

\* the csvContent that handleExportCSV puts in the downloaded file
ExportedAccountsCSV(accounts) ==
    join(<<join(csvHeaders, ",")>> \o [i \in 1..Len(accounts) |-> AccountRow(accounts[i])], "\n")

Toast(title, variant) == [title |-> title, variant |-> variant]

(***************************************************************************)
(* The lists that are exported.                                            *)
(***************************************************************************)
VMSample(vmName, internetAccess, remarks, dateDeleted) ==
    [id |-> 7, vmId |-> "VM-001", vmName |-> vmName, vmStatus |-> "Running",
     vmIp |-> "10.0.0.5", internetAccess |-> internetAccess, vmOs |-> "Ubuntu",
     vmOsVersion |-> "22.04", hypervisor |-> "ESXi", hostname |-> "host-a",
     hostModel |-> "R740", hostIp |-> "10.0.0.1", hostOs |-> "vSphere 8",
     rack |-> "R12", deployedBy |-> "Ann Lee", user |-> "bob", department |-> "IT",
     startDate |-> "2024-01-15", endDate |-> "2024-07-15", jiraTicket |-> "OPS-42",
     remarks |-> remarks, dateDeleted |-> dateDeleted]

VMSamples ==
    {VMSample("Web 01", TRUE, "ok", <<>>), VMSample("Web 01", FALSE, "ok", <<>>),
     VMSample("Web 01", FALSE, "", <<>>), VMSample("db,02", TRUE, "ok", <<>>),
     VMSample("Web 01", TRUE, "ok", <<"2024-08-01">>)}

AccountSample(requestor, start, remarks) ==
    [id |-> 3, requestor |-> requestor, knoxId |-> "KNOX001",
     permission |-> "IAM:ReadOnly", durationStartDate |-> start,
     durationEndDate |-> <<"2024-07-15">>, cloudPlatform |-> "Google Cloud",
     projectAccounts |-> <<"dev-001">>, approvalId |-> <<>>, remarks |-> remarks,
     status |-> "expired", createdAt |-> "2024-01-01", updatedAt |-> "2024-01-02"]

AccountSamples ==
    {AccountSample("Ann Lee", <<>>, <<>>),
     AccountSample("Ann Lee", <<"2024-01-15">>, <<"Q1 access">>),
     AccountSample("Ann Lee", <<>>, <<"said \"ok\"">>),
     AccountSample("Doe, John", <<>>, <<"Q1 access">>)}

\* importDataFromFile was not called
NoUpload == [name |-> "", pc |-> "idle", error |-> "", sent |-> <<>>]

NotConverted == [converted |-> FALSE, items |-> <<>>]
Converted(items) == [converted |-> TRUE, items |-> items]

\* useState's initial form
InitialFormData ==
    [requestor |-> "", knoxId |-> "", permission |-> "",
     durationStartDate |-> <<"">>, durationEndDate |-> <<"">>, cloudPlatform |-> "",
     projectAccounts |-> <<"">>, approvalId |-> <<"">>, remarks |-> <<"">>,
     status |-> "active"]

\* the query on mount: the first GET is on its way
QueryMounted ==
    /\ queryStatus = "fetching"
    /\ failureCount = 0
    /\ getsSent = 1

\* the query after its first answer
QueryLoaded ==
    /\ queryStatus = "success"
    /\ failureCount = 0
    /\ getsSent = 1

\* mutant of invalidateQueries: the call is left out
NoInvalidation == UNCHANGED <<invalidations, queryVars>>

\* queryClient.invalidateQueries({queryKey: ['/api/iam-accounts']}): the mounted
\* query is marked stale and fetched again, a fetch under way being replaced
invalidateQueries ==
    /\ invalidations' = invalidations + 1
    /\ queryStatus' = "fetching"
    /\ failureCount' = 0
    /\ getsSent' = getsSent + 1

\* useState's initial values of the import dialog
ImportInitial ==
    /\ isImportDialogOpen = FALSE
    /\ importFile = <<>>
    /\ importProgress = 0
    /\ importStatus = "idle"
    /\ imports = <<>>

NothingExported == vms = <<>> /\ iamAccounts = <<>> /\ toasts = <<>>

Init ==
    /\ importType = "none"
    /\ csvContent = ""
    /\ parsed = NotParsed
    /\ data = NotConverted
    /\ vms = <<>>
    /\ iamAccounts = <<>>
    /\ searchTerm = "" /\ statusFilter = "all"
    /\ platformFilter = "all" /\ projectAccountFilter = "all"
    /\ currentPage = 1
    /\ toasts = <<>>
    /\ isAddDialogOpen = FALSE
    /\ accountToEdit = <<>>
    /\ formData = InitialFormData
    /\ requests = <<>>
    /\ invalidations = 0
    /\ accountToDelete = <<>>
    /\ QueryMounted
    /\ upload = NoUpload
    /\ ImportInitial

SelectFile(t, h) ==
    /\ importType = "none" /\ csvContent = "" /\ NothingExported
    /\ importType' = t
    /\ csvContent' = h
    /\ UNCHANGED <<parsed, data, vms, iamAccounts, filterVars, queryVars, upload, toasts, uiVars>>

TypeNewline ==
    /\ importType # "none" /\ parsed = NotParsed /\ NothingExported
    /\ csvContent # ""
    /\ CountSeparators(DataPart(csvContent)) < MaxSeparators
    /\ csvContent' = csvContent \o "\n"
    /\ UNCHANGED <<importType, parsed, data, vms, iamAccounts, filterVars, queryVars, upload, toasts, uiVars>>

TypeComma ==
    /\ importType # "none" /\ parsed = NotParsed /\ NothingExported
    /\ includes(csvContent, "\n")
    /\ CountSeparators(DataPart(csvContent)) < MaxSeparators
    /\ csvContent' = csvContent \o ","
    /\ UNCHANGED <<importType, parsed, data, vms, iamAccounts, filterVars, queryVars, upload, toasts, uiVars>>

TypeValue(v) ==
    /\ importType # "none" /\ parsed = NotParsed /\ NothingExported
    /\ includes(csvContent, "\n")
    /\ LastChar(csvContent) \in {",", "\n"}
    /\ csvContent' = csvContent \o v
    /\ UNCHANGED <<importType, parsed, data, vms, iamAccounts, filterVars, queryVars, upload, toasts, uiVars>>

\* the list of virtual machines grows by one
AddVM(vm) ==
    /\ importType = "none" /\ csvContent = "" /\ iamAccounts = <<>> /\ toasts = <<>>
    /\ Len(vms) < MaxVMs
    /\ vms' = Append(vms, vm)
    /\ UNCHANGED <<fileVars, iamAccounts, filterVars, queryVars, upload, toasts, uiVars>>

\* the account list of the page grows by one
LoadAccount(account) ==
    /\ importType = "none" /\ csvContent = "" /\ vms = <<>> /\ toasts = <<>>
    /\ Len(iamAccounts) < MaxAccounts
    /\ iamAccounts' = Append(iamAccounts, account)
    /\ UNCHANGED <<fileVars, vms, filterVars, queryVars, upload, toasts, uiVars>>

ExportVMs ==
    /\ importType = "none" /\ csvContent = "" /\ iamAccounts = <<>> /\ toasts = <<>>
    /\ csvContent' = convertToCSV(vms)
    /\ UNCHANGED <<importType, parsed, data, vms, iamAccounts, filterVars, queryVars, upload, toasts, uiVars>>

handleExportCSV ==
    /\ importType = "none" /\ csvContent = "" /\ vms = <<>> /\ toasts = <<>>
    /\ IF Len(filteredAccounts) = 0
       THEN /\ toasts' = Append(toasts, Toast("No data to export", "destructive"))
            /\ UNCHANGED csvContent
       ELSE /\ csvContent' = ExportedAccountsCSV(filteredAccounts)
            /\ toasts' = Append(toasts, Toast("Export successful", "default"))
    /\ UNCHANGED <<importType, parsed, data, vms, iamAccounts, filterVars, queryVars, upload, uiVars>>

\* the exported file is chosen for import
SelectExportedFile ==
    /\ importType = "none" /\ csvContent # ""
    /\ importType' = IF vms # <<>> THEN "vms" ELSE "iam"
    /\ UNCHANGED <<csvContent, parsed, data, vms, iamAccounts, filterVars, queryVars, upload, toasts, uiVars>>

ParseAssets ==
    /\ importType = "assets" /\ parsed = NotParsed
    /\ parsed' = parseCSV(csvContent)
    /\ UNCHANGED <<importType, csvContent, data, vms, iamAccounts, filterVars, queryVars, upload, toasts, uiVars>>

ParseComponents ==
    /\ importType = "components" /\ parsed = NotParsed
    /\ parsed' = parseComponentCSV(csvContent)
    /\ UNCHANGED <<importType, csvContent, data, vms, iamAccounts, filterVars, queryVars, upload, toasts, uiVars>>

ParseAccessories ==
    /\ importType = "accessories" /\ parsed = NotParsed
    /\ parsed' = parseAccessoryCSV(csvContent)
    /\ UNCHANGED <<importType, csvContent, data, vms, iamAccounts, filterVars, queryVars, upload, toasts, uiVars>>

ParseVMs ==
    /\ importType = "vms" /\ parsed = NotParsed
    /\ parsed' = parseVMCSV(csvContent)
    /\ UNCHANGED <<importType, csvContent, data, vms, iamAccounts, filterVars, queryVars, upload, toasts, uiVars>>

ParseAccounts ==
    /\ importType = "iam" /\ parsed = NotParsed
    /\ parsed' = parseCSVData(csvContent)
    /\ UNCHANGED <<importType, csvContent, data, vms, iamAccounts, filterVars, queryVars, upload, toasts, uiVars>>

ConvertVMs ==
    /\ importType = "vms" /\ parsed # NotParsed /\ ~parsed.threw
    /\ data = NotConverted
    /\ data' = Converted(convertCSVToVMs(parsed.records))
    /\ UNCHANGED <<importType, csvContent, parsed, vms, iamAccounts, filterVars, queryVars, upload, toasts, uiVars>>

Next ==
    \/ \E t \in ImportTypes : \E h \in HeaderLines(t) : SelectFile(t, h)
    \/ TypeNewline
    \/ TypeComma
    \/ \E v \in TypedValues(importType, csvContent) : TypeValue(v)
    \/ \E vm \in VMSamples : AddVM(vm)
    \/ \E account \in AccountSamples : LoadAccount(account)
    \/ ExportVMs
    \/ handleExportCSV
    \/ SelectExportedFile
    \/ ParseAssets
    \/ ParseComponents
    \/ ParseAccessories
    \/ ParseVMs
    \/ ParseAccounts
    \/ ConvertVMs

Spec == Init /\ [][Next]_vars

(***************************************************************************)
(* The add/edit dialog of the IAM accounts page.                           *)
(***************************************************************************)
\* the form that resetForm sets
resetForm ==
    [requestor |-> "", knoxId |-> "", permission |-> "",
     durationStartDate |-> <<"">>, durationEndDate |-> <<"">>, cloudPlatform |-> "",
     projectAccounts |-> <<"">>, approvalId |-> <<"">>, remarks |-> <<"">>,
     status |-> "active"]

\* mutant of FormIncomplete: the check forgets the cloud platform
FormIncompleteNoPlatform(form) ==
    Falsy(form, "requestor") \/ Falsy(form, "knoxId") \/ Falsy(form, "permission")

\* the condition of handleSubmit's validation
FormIncomplete(form) ==
    \/ Falsy(form, "requestor") \/ Falsy(form, "knoxId")
    \/ Falsy(form, "permission") \/ Falsy(form, "cloudPlatform")

\* what the user types into the required inputs: nothing, or a text
FormInputs ==
    [requestor |-> {"", "Ann Lee"}, knoxId |-> {"", "KNOX001"},
     permission |-> {"", "IAM:ReadOnly"}, cloudPlatform |-> {"", "Google Cloud"}]

\* the account list the query has loaded
PageAccounts == <<AccountSample("Ann Lee", <<>>, <<"Q1 access">>)>>

CreateRequest(form) ==
    [method |-> "POST", id |-> <<>>, data |-> form, status |-> "pending"]

UpdateRequest(id, form) ==
    [method |-> "PUT", id |-> <<id>>, data |-> form, status |-> "pending"]

PageInit ==
    /\ importType = "none"
    /\ csvContent = ""
    /\ parsed = NotParsed
    /\ data = NotConverted
    /\ vms = <<>>
    /\ iamAccounts = PageAccounts
    /\ searchTerm = "" /\ statusFilter = "all"
    /\ platformFilter = "all" /\ projectAccountFilter = "all"
    /\ currentPage = 1
    /\ toasts = <<>>
    /\ isAddDialogOpen = FALSE
    /\ accountToEdit = <<>>
    /\ formData = InitialFormData
    /\ requests = <<>>
    /\ invalidations = 0
    /\ accountToDelete = <<>>
    /\ QueryLoaded
    /\ upload = NoUpload
    /\ ImportInitial

\* the dialogs are modal: the page behind an open dialog takes no clicks
NoDialogOpen == ~isAddDialogOpen /\ ~isImportDialogOpen /\ accountToDelete = <<>>

\* the 'Add IAM Account' button
ClickAdd ==
    /\ NoDialogOpen
    /\ formData' = resetForm
    /\ isAddDialogOpen' = TRUE
    /\ UNCHANGED <<nonDialogVars, toasts, accountToEdit,
                   requests, invalidations>>

handleEdit(account) ==
    /\ NoDialogOpen
    /\ accountToEdit' = <<account>>
    /\ formData' = account
    /\ isAddDialogOpen' = TRUE
    /\ UNCHANGED <<nonDialogVars, toasts, requests,
                   invalidations>>

\* onChange of a form input: setFormData({...formData, [field]: value})
ChangeField(field, value) ==
    /\ isAddDialogOpen
    /\ formData' = [k \in DOMAIN formData \cup {field} |->
                        IF k = field THEN value ELSE formData[k]]
    /\ UNCHANGED <<nonDialogVars, toasts, isAddDialogOpen,
                   accountToEdit, requests, invalidations>>

\* handleSubmit up to its await: the validation, then the request is sent
handleSubmit ==
    /\ isAddDialogOpen
    /\ Len(toasts) < MaxToasts
    /\ IF FormIncomplete(formData)
       THEN /\ toasts' = Append(toasts, Toast("Validation Error", "destructive"))
            /\ UNCHANGED requests
       ELSE /\ Len(requests) < MaxRequests
            /\ requests' = Append(requests,
                                  IF accountToEdit # <<>>
                                  THEN UpdateRequest(accountToEdit[1].id, formData)
                                  ELSE CreateRequest(formData))
            /\ UNCHANGED toasts
    /\ UNCHANGED <<nonDialogVars, formVars, invalidations>>

\* the request succeeds: the mutation's onSuccess, then the rest of handleSubmit's try
SubmitSucceeds(i) ==
    /\ requests[i].status = "pending" /\ requests[i].method # "DELETE"
    /\ Len(toasts) < MaxToasts
    /\ requests' = [requests EXCEPT ![i].status = "ok"]
    /\ invalidateQueries
    /\ toasts' = Append(toasts, Toast(IF requests[i].method = "PUT"
                                      THEN "Account Updated"
                                      ELSE "Account Created", "default"))
    /\ isAddDialogOpen' = FALSE
    /\ accountToEdit' = <<>>
    /\ formData' = resetForm
    /\ UNCHANGED <<fileVars, vms, iamAccounts, filterVars, upload, accountToDelete, importVars>>

\* mutant of SubmitFails: the catch closes the dialog and resets the form as well
SubmitFailsAndResets(i) ==
    /\ requests[i].status = "pending" /\ requests[i].method # "DELETE"
    /\ Len(toasts) < MaxToasts
    /\ requests' = [requests EXCEPT ![i].status = "failed"]
    /\ toasts' = Append(toasts, Toast("Error", "destructive"))
    /\ isAddDialogOpen' = FALSE
    /\ accountToEdit' = <<>>
    /\ formData' = resetForm
    /\ UNCHANGED <<nonDialogVars, invalidations>>

\* the request fails: mutateAsync rejects, handleSubmit's catch
SubmitFails(i) ==
    /\ requests[i].status = "pending" /\ requests[i].method # "DELETE"
    /\ Len(toasts) < MaxToasts
    /\ requests' = [requests EXCEPT ![i].status = "failed"]
    /\ toasts' = Append(toasts, Toast("Error", "destructive"))
    /\ UNCHANGED <<nonDialogVars, formVars, invalidations>>

\* the Cancel button of the dialog
ClickCancel ==
    /\ isAddDialogOpen
    /\ isAddDialogOpen' = FALSE
    /\ accountToEdit' = <<>>
    /\ formData' = resetForm
    /\ UNCHANGED <<nonDialogVars, toasts, requests,
                   invalidations>>

\* the dialog closes itself (Escape, click outside, X): onOpenChange(false)
CloseDialog ==
    /\ isAddDialogOpen
    /\ isAddDialogOpen' = FALSE
    /\ UNCHANGED <<nonDialogVars, toasts, accountToEdit,
                   formData, requests, invalidations>>

DeleteRequest(id) ==
    [method |-> "DELETE", id |-> <<id>>, data |-> EmptyObject, status |-> "pending"]

\* the trash button of a table row
ClickDelete(account) ==
    /\ NoDialogOpen
    /\ accountToDelete' = <<account>>
    /\ UNCHANGED <<fileVars, vms, iamAccounts, filterVars, queryVars, upload, toasts, pageVars, importVars>>

\* the confirmation dialog's onClose
CloseDeleteDialog ==
    /\ accountToDelete # <<>>
    /\ accountToDelete' = <<>>
    /\ UNCHANGED <<fileVars, vms, iamAccounts, filterVars, queryVars, upload, toasts, pageVars, importVars>>

\* handleDelete up to its await: the confirmation dialog's onConfirm
handleDelete ==
    /\ accountToDelete # <<>>
    /\ Len(requests) < MaxRequests
    /\ requests' = Append(requests, DeleteRequest(accountToDelete[1].id))
    /\ UNCHANGED <<fileVars, vms, iamAccounts, filterVars, queryVars, upload, toasts, formVars,
                   invalidations, accountToDelete, importVars>>

\* the DELETE succeeds: the mutation's onSuccess, then the rest of handleDelete's try
DeleteSucceeds(i) ==
    /\ requests[i].status = "pending" /\ requests[i].method = "DELETE"
    /\ Len(toasts) < MaxToasts
    /\ requests' = [requests EXCEPT ![i].status = "ok"]
    /\ invalidateQueries
    /\ toasts' = Append(toasts, Toast("Account Deleted", "default"))
    /\ accountToDelete' = <<>>
    /\ UNCHANGED <<fileVars, vms, iamAccounts, filterVars, upload, formVars, importVars>>

\* the DELETE fails: mutateAsync rejects, handleDelete's catch
DeleteFails(i) ==
    /\ requests[i].status = "pending" /\ requests[i].method = "DELETE"
    /\ Len(toasts) < MaxToasts
    /\ requests' = [requests EXCEPT ![i].status = "failed"]
    /\ toasts' = Append(toasts, Toast("Error", "destructive"))
    /\ UNCHANGED <<fileVars, vms, iamAccounts, filterVars, queryVars, upload, formVars, invalidations,
                   accountToDelete, importVars>>

PageNext ==
    \/ ClickAdd
    \/ \E i \in 1..Len(iamAccounts) : handleEdit(iamAccounts[i])
    \/ \E field \in DOMAIN FormInputs : \E value \in FormInputs[field] :
          ChangeField(field, value)
    \/ handleSubmit
    \/ \E i \in 1..Len(requests) : SubmitSucceeds(i)
    \/ \E i \in 1..Len(requests) : SubmitFails(i)
    \/ ClickCancel
    \/ CloseDialog

PageSpec == PageInit /\ [][PageNext]_vars

(***************************************************************************)
(* The convertCSVTo* functions applied to lists of parsed records.         *)
(***************************************************************************)
ListsUpTo(S, n) == UNION {[1..k -> S] : k \in 0..n}

CSVAssetSamples ==
    LET base == ("serialNumber" :> "SN1")
    IN  {base,
         base @@ ("category" :> "Desktop") @@ ("status" :> "Deployed")
              @@ ("condition" :> "Excellent") @@ ("name" :> "PC"),
         base @@ ("category" :> "") @@ ("status" :> "") @@ ("condition" :> ""),
         base @@ ("condition" :> "  ") @@ ("category" :> " "),
         base @@ ("condition" :> " POOR "),
         base @@ ("condition" :> "Damaged") @@ ("assetTag" :> ""),
         base @@ ("condition" :> " Fair ") @@ ("notes" :> "spare"),
         base @@ ("condition" :> "WORKING") @@ ("warranty" :> "1y"),
         ("name" :> "PC") @@ ("condition" :> "bad")}

CSVComponentSamples ==
    LET base == ("name" :> "RAM") @@ ("category" :> "Memory")
    IN  {base} \cup
        {base @@ ("quantity" :> q) :
            q \in {"", "5", " 12", "3 pcs", "2.5", "-2", "abc", "0x1F"}}

CSVAccessorySamples ==
    LET base == ("name" :> "Mouse") @@ ("category" :> "Input")
    IN  {base,
         base @@ ("status" :> "Borrowed by Ann") @@ ("quantity" :> "2"),
         base @@ ("status" :> "RETURNED") @@ ("quantity" :> "many"),
         base @@ ("status" :> "defective") @@ ("notes" :> "left button"),
         base @@ ("status" :> "lost") @@ ("quantity" :> ""),
         base @@ ("status" :> "") @@ ("quantity" :> "007")}

CSVVMSamples ==
    LET base == ("vmId" :> "VM-1") @@ ("vmName" :> "Web 01") @@ ("hypervisor" :> "ESXi")
    IN  {base,
         base @@ ("internetAccess" :> "TRUE") @@ ("vmStatus" :> "Running"),
         base @@ ("internetAccess" :> "Yes") @@ ("vmStatus" :> ""),
         base @@ ("internetAccess" :> "1") @@ ("remarks" :> ""),
         base @@ ("internetAccess" :> "no") @@ ("rack" :> "R12"),
         base @@ ("internetAccess" :> "on"),
         base @@ ("internetAccess" :> ""),
         ("vmName" :> "") @@ ("internetAccess" :> " true")}

ConvertTypes == {"assets", "components", "accessories", "vms"}

CSVSamples(t) ==
    CASE t = "assets"      -> CSVAssetSamples
      [] t = "components"  -> CSVComponentSamples
      [] t = "accessories" -> CSVAccessorySamples
      [] t = "vms"         -> CSVVMSamples

\* a list of records, as a parser returns it, is about to be converted
ConvertInit ==
    /\ importType \in ConvertTypes
    /\ csvContent = ""
    /\ parsed \in {Return(list) : list \in ListsUpTo(CSVSamples(importType), MaxRecords)}
    /\ data = NotConverted
    /\ vms = <<>>
    /\ iamAccounts = <<>>
    /\ searchTerm = "" /\ statusFilter = "all"
    /\ platformFilter = "all" /\ projectAccountFilter = "all"
    /\ currentPage = 1
    /\ toasts = <<>>
    /\ isAddDialogOpen = FALSE
    /\ accountToEdit = <<>>
    /\ formData = InitialFormData
    /\ requests = <<>>
    /\ invalidations = 0
    /\ accountToDelete = <<>>
    /\ QueryMounted
    /\ upload = NoUpload
    /\ ImportInitial

ConvertAssets ==
    /\ importType = "assets" /\ parsed # NotParsed /\ ~parsed.threw
    /\ data = NotConverted
    /\ data' = Converted(convertCSVToAssets(parsed.records))
    /\ UNCHANGED <<importType, csvContent, parsed, vms, iamAccounts, filterVars, queryVars, upload, toasts,
                   uiVars>>

ConvertComponents ==
    /\ importType = "components" /\ parsed # NotParsed /\ ~parsed.threw
    /\ data = NotConverted
    /\ data' = Converted(convertCSVToComponents(parsed.records))
    /\ UNCHANGED <<importType, csvContent, parsed, vms, iamAccounts, filterVars, queryVars, upload, toasts,
                   uiVars>>

ConvertAccessories ==
    /\ importType = "accessories" /\ parsed # NotParsed /\ ~parsed.threw
    /\ data = NotConverted
    /\ data' = Converted(convertCSVToAccessories(parsed.records))
    /\ UNCHANGED <<importType, csvContent, parsed, vms, iamAccounts, filterVars, queryVars, upload, toasts,
                   uiVars>>

ConvertNext ==
    \/ ConvertAssets
    \/ ConvertComponents
    \/ ConvertAccessories
    \/ ConvertVMs

ConvertSpec == ConvertInit /\ [][ConvertNext]_vars

(***************************************************************************)
(* The CSV import dialog of the IAM accounts page.                         *)
(***************************************************************************)
statusTypes == {"active", "expired", "extended", "access_removed"}

ImportFile(name, content) == [name |-> name, content |-> content]

\* the files the user may choose in the import dialog
ImportFiles ==
    {ImportFile("plain.csv",
                "requestor,knoxid,permission,cloudplatform\nAnn,K1,Read,AWS"),
     ImportFile("status.csv",
                "Requestor,Knox ID,Permission,Cloud Platform,Status\n"
                \o "Ann,K1,Read,AWS,\nBob,K2,Read,Azure,expired\n"),
     ImportFile("suspended.csv",
                "requestor,knoxid,permission,cloudplatform,status\nAnn,K1,Read,AWS,Suspended"),
     ImportFile("gaps.csv",
                "requestor,knoxid,permission,cloudplatform\nAnn,K1,,AWS\nBob,K2,Read,AWS"),
     ImportFile("norows.csv", "requestor,knoxid,permission\nAnn,K1,Read"),
     ImportFile("header.csv", "requestor,knoxid,permission,cloudplatform")}

\* a run of handleImportCSV: the file it reads, where it is, what it posted
ImportRun(file, pc, accounts) == [file |-> file, pc |-> pc, accounts |-> accounts]

\* the 'Import CSV' button of the page
OpenImportDialog ==
    /\ NoDialogOpen
    /\ isImportDialogOpen' = TRUE
    /\ UNCHANGED <<fileVars, vms, iamAccounts, filterVars, queryVars, upload, accountToDelete, toasts, pageVars,
                   importFile, importProgress, importStatus, imports>>

handleFileChange(file) ==
    /\ isImportDialogOpen
    /\ importFile' = <<file>>
    /\ UNCHANGED <<fileVars, vms, iamAccounts, filterVars, queryVars, upload, accountToDelete, toasts, pageVars,
                   isImportDialogOpen, importProgress, importStatus, imports>>

\* mutant of ImportEnabled: the button stays enabled while an import is uploading
ImportEnabledWhileUploading == importFile # <<>>

\* the 'Import Accounts' button is enabled
ImportEnabled == importFile # <<>> /\ importStatus # "uploading"

\* handleImportCSV up to its first await: the file check, then the read starts
handleImportCSV ==
    /\ isImportDialogOpen
    /\ IF importFile = <<>>
       THEN /\ Len(toasts) < MaxToasts
            /\ toasts' = Append(toasts, Toast("No file selected", "destructive"))
            /\ UNCHANGED <<importProgress, importStatus, imports>>
       ELSE /\ Len(imports) < MaxImports
            /\ importStatus' = "uploading"
            /\ importProgress' = 25
            /\ imports' = Append(imports, ImportRun(importFile[1], "reading", <<>>))
            /\ UNCHANGED toasts
    /\ UNCHANGED <<fileVars, vms, iamAccounts, filterVars, queryVars, upload, accountToDelete, pageVars,
                   isImportDialogOpen, importFile>>

\* mutant of ImportCaught: the catch shows nothing
ImportCaughtSilently(i) ==
    /\ imports' = [imports EXCEPT ![i].pc = "failed"]
    /\ importStatus' = "error"
    /\ UNCHANGED toasts

\* mutant of ImportCaught: the catch puts the status back to 'idle'
ImportCaughtAsIdle(i) ==
    /\ imports' = [imports EXCEPT ![i].pc = "failed"]
    /\ importStatus' = "idle"
    /\ toasts' = Append(toasts, Toast("Import failed", "destructive"))

\* handleImportCSV's catch
ImportCaught(i) ==
    /\ imports' = [imports EXCEPT ![i].pc = "failed"]
    /\ importStatus' = "error"
    /\ toasts' = Append(toasts, Toast("Import failed", "destructive"))

\* the FileReader delivers the text: parseCSVData, then the request is sent
FileLoaded(i) ==
    /\ imports[i].pc = "reading"
    /\ LET result == parseCSVData(imports[i].file.content)
       IN  IF result.threw
           THEN /\ ImportCaught(i)
                /\ importProgress' = 50
           ELSE /\ imports' = [imports EXCEPT ![i].pc = "posting",
                                              ![i].accounts = result.records]
                /\ importProgress' = 75
                /\ UNCHANGED <<importStatus, toasts>>
    /\ UNCHANGED <<fileVars, vms, iamAccounts, filterVars, queryVars, upload, accountToDelete, pageVars,
                   isImportDialogOpen, importFile>>

\* the FileReader reports an error
FileReadFails(i) ==
    /\ imports[i].pc = "reading"
    /\ ImportCaught(i)
    /\ UNCHANGED <<fileVars, vms, iamAccounts, filterVars, queryVars, upload, accountToDelete, pageVars,
                   isImportDialogOpen, importFile, importProgress>>

\* the server answers OK: the rest of handleImportCSV's try
ImportSucceeds(i) ==
    /\ imports[i].pc = "posting"
    /\ imports' = [imports EXCEPT ![i].pc = "done"]
    /\ toasts' = Append(toasts, Toast("Import successful", "default"))
    /\ invalidateQueries
    /\ importFile' = <<>>
    /\ isImportDialogOpen' = FALSE
    /\ importStatus' = "idle"
    /\ importProgress' = 0
    /\ UNCHANGED <<fileVars, vms, iamAccounts, filterVars, upload, accountToDelete, formVars, requests>>

\* fetch rejects, the answer is not OK or its body is no JSON
ImportFails(i) ==
    /\ imports[i].pc = "posting"
    /\ ImportCaught(i)
    /\ UNCHANGED <<fileVars, vms, iamAccounts, filterVars, queryVars, upload, accountToDelete, pageVars,
                   isImportDialogOpen, importFile, importProgress>>

\* the Cancel button of the import dialog
CancelImport ==
    /\ isImportDialogOpen /\ importStatus # "uploading"
    /\ isImportDialogOpen' = FALSE
    /\ importFile' = <<>>
    /\ importStatus' = "idle"
    /\ importProgress' = 0
    /\ UNCHANGED <<fileVars, vms, iamAccounts, filterVars, queryVars, upload, accountToDelete, toasts, pageVars, imports>>

\* the import dialog closes itself: onOpenChange(false)
CloseImportDialog ==
    /\ isImportDialogOpen
    /\ isImportDialogOpen' = FALSE
    /\ UNCHANGED <<fileVars, vms, iamAccounts, filterVars, queryVars, upload, accountToDelete, toasts, pageVars,
                   importFile, importProgress, importStatus, imports>>

ImportNext ==
    \/ OpenImportDialog
    \/ \E file \in ImportFiles : handleFileChange(file)
    \/ ImportEnabled /\ handleImportCSV
    \/ \E i \in 1..Len(imports) : FileLoaded(i)
    \/ \E i \in 1..Len(imports) : FileReadFails(i)
    \/ \E i \in 1..Len(imports) : ImportSucceeds(i)
    \/ \E i \in 1..Len(imports) : ImportFails(i)
    \/ CancelImport
    \/ CloseImportDialog

ImportSpec == PageInit /\ [][ImportNext]_vars

\* handleImportCSV as a function of the page's state: it is also called when no
\* file is chosen, the case its first test answers.  The files chosen here: one
\* that parses and one that parseCSVData refuses.
ImportCallFiles == {file \in ImportFiles : file.name \in {"plain.csv", "header.csv"}}

ImportCallNext ==
    \/ OpenImportDialog
    \/ \E file \in ImportCallFiles : handleFileChange(file)
    \/ importStatus # "uploading" /\ handleImportCSV
    \/ \E i \in 1..Len(imports) : FileLoaded(i)
    \/ \E i \in 1..Len(imports) : FileReadFails(i)
    \/ \E i \in 1..Len(imports) : ImportSucceeds(i)
    \/ \E i \in 1..Len(imports) : ImportFails(i)
    \/ CancelImport
    \/ CloseImportDialog

ImportCallSpec == PageInit /\ [][ImportCallNext]_vars

(***************************************************************************)
(* The account table: search, filters, pages and the Export CSV button.    *)
(***************************************************************************)
\* accounts as the server lists them; the permission field is a multi-line text area
ListedAccount(i) ==
    [AccountSample(IF i <= 6 THEN "Ann Lee" ELSE "Bob Ray", <<>>, <<>>) EXCEPT
        !.id = i,
        !.knoxId = IF i = 1 THEN "KNOX001" ELSE "KNOX002",
        !.permission = IF i = 4 THEN "IAM:Read\nIAM:Write" ELSE "IAM:ReadOnly",
        !.cloudPlatform = IF i % 3 = 0 THEN "AWS" ELSE "Google Cloud",
        !.status = IF i % 2 = 0 THEN "active" ELSE "expired"]

ListedAccounts(n) == [i \in 1..n |-> ListedAccount(i)]

TableInit ==
    /\ importType = "none"
    /\ csvContent = ""
    /\ parsed = NotParsed
    /\ data = NotConverted
    /\ vms = <<>>
    /\ iamAccounts \in {ListedAccounts(n) : n \in {0, 3, MaxListed}}
    /\ searchTerm = "" /\ statusFilter = "all"
    /\ platformFilter = "all" /\ projectAccountFilter = "all"
    /\ currentPage = 1
    /\ toasts = <<>>
    /\ isAddDialogOpen = FALSE
    /\ accountToEdit = <<>>
    /\ formData = InitialFormData
    /\ requests = <<>>
    /\ invalidations = 0
    /\ accountToDelete = <<>>
    /\ QueryLoaded
    /\ upload = NoUpload
    /\ ImportInitial

NothingDownloaded == csvContent = "" /\ toasts = <<>>

\* the search box's onChange
setSearchTerm(term) ==
    /\ NothingDownloaded
    /\ searchTerm' = term
    /\ UNCHANGED <<fileVars, vms, iamAccounts, statusFilter, platformFilter,
                   projectAccountFilter, currentPage, queryVars, upload, toasts, uiVars>>

\* the status select: "all" or a status that occurs in the list
setStatusFilter(value) ==
    /\ NothingDownloaded
    /\ value = "all" \/ \E i \in 1..Len(iamAccounts) : iamAccounts[i].status = value
    /\ statusFilter' = value
    /\ UNCHANGED <<fileVars, vms, iamAccounts, searchTerm, platformFilter,
                   projectAccountFilter, currentPage, queryVars, upload, toasts, uiVars>>

setPlatformFilter(value) ==
    /\ NothingDownloaded
    /\ value = "all" \/ \E i \in 1..Len(iamAccounts) : iamAccounts[i].cloudPlatform = value
    /\ platformFilter' = value
    /\ UNCHANGED <<fileVars, vms, iamAccounts, searchTerm, statusFilter,
                   projectAccountFilter, currentPage, queryVars, upload, toasts, uiVars>>

setProjectAccountFilter(value) ==
    /\ NothingDownloaded
    /\ value = "all"
       \/ \E i \in 1..Len(iamAccounts) : iamAccounts[i].projectAccounts = <<value>>
    /\ projectAccountFilter' = value
    /\ UNCHANGED <<fileVars, vms, iamAccounts, searchTerm, statusFilter,
                   platformFilter, currentPage, queryVars, upload, toasts, uiVars>>

\* the Clear Filters button
ClearFilters ==
    /\ NothingDownloaded
    /\ statusFilter' = "all"
    /\ platformFilter' = "all"
    /\ projectAccountFilter' = "all"
    /\ searchTerm' = ""
    /\ UNCHANGED <<fileVars, vms, iamAccounts, currentPage, queryVars, upload, toasts, uiVars>>

\* a page link, Previous or Next of the pagination
handlePageChange(page) ==
    /\ NothingDownloaded
    /\ currentPage' = page
    /\ UNCHANGED <<fileVars, vms, iamAccounts, searchTerm, statusFilter, platformFilter,
                   projectAccountFilter, queryVars, upload, toasts, uiVars>>

TableNext ==
    \/ \E term \in {"", "ann", "BOB", "knox002", "zzz"} : setSearchTerm(term)
    \/ \E value \in {"all", "active", "expired"} : setStatusFilter(value)
    \/ \E value \in {"all", "AWS", "Google Cloud"} : setPlatformFilter(value)
    \/ \E value \in {"all", "dev-001"} : setProjectAccountFilter(value)
    \/ ClearFilters
    \/ \E page \in PageTargets : handlePageChange(page)
    \/ handleExportCSV

TableSpec == TableInit /\ [][TableNext]_vars

\* the pagination bar over lists of up to MaxPages pages
PagerInit ==
    /\ importType = "none"
    /\ csvContent = ""
    /\ parsed = NotParsed
    /\ data = NotConverted
    /\ vms = <<>>
    /\ iamAccounts \in {ListedAccounts(itemsPerPage * n) : n \in 0..MaxPages}
    /\ searchTerm = "" /\ statusFilter = "all"
    /\ platformFilter = "all" /\ projectAccountFilter = "all"
    /\ currentPage = 1
    /\ toasts = <<>>
    /\ isAddDialogOpen = FALSE
    /\ accountToEdit = <<>>
    /\ formData = InitialFormData
    /\ requests = <<>>
    /\ invalidations = 0
    /\ accountToDelete = <<>>
    /\ QueryLoaded
    /\ upload = NoUpload
    /\ ImportInitial

PagerNext ==
    \/ \E page \in PageTargets : handlePageChange(page)
    \/ \E value \in {"all", "active", "expired"} : setStatusFilter(value)

PagerSpec == PagerInit /\ [][PagerNext]_vars

(***************************************************************************)
(* importDataFromFile and parseFile.                                       *)
(***************************************************************************)
\* file.name.toLowerCase().split('.').pop()
fileExtension(name) ==
    LET parts == split(toLowerCase(name), ".") IN parts[Len(parts)]

\* the import types callers pass; "licenses" reaches the switch's default
UploadTypes == {"assets", "components", "accessories", "vms", "licenses"}

UploadNames ==
    {"items.csv", "ITEMS.CSV", "items.xlsx", "items.xls", "items.txt", "items.csv.bak", "csv"}

UploadHeader(t) ==
    CASE t = "assets" -> "name,serial number"
      [] t = "vms"    -> "vmid,vmname,hypervisor"
      [] OTHER        -> "name,category"

UploadRows(t) ==
    CASE t = "assets" -> {"Laptop,SN1", "N/A,N/A", ""}
      [] t = "vms"    -> {"1,web,kvm", "2,db", "3,,kvm", ""}
      [] OTHER        -> {"CPU,Parts", "RAM", ",Parts", ""}

\* the texts of the files: a header row and up to MaxRows data rows, or a header
\* row without a required column
UploadContents(t) ==
    {join(<<UploadHeader(t)>> \o rows, "\n") : rows \in ListsUpTo(UploadRows(t), MaxRows)}
    \cup {"name\nCPU"}

\* fetch(`/api/${importType}/import`, {method: 'POST', body: {[importType]: data}})
ImportRequest(t, items) ==
    [method |-> "POST", url |-> "/api/" \o t \o "/import", body |-> (t :> items)]

ConverterOf(t, records) ==
    CASE t = "assets"      -> convertCSVToAssets(records)
      [] t = "components"  -> convertCSVToComponents(records)
      [] t = "accessories" -> convertCSVToAccessories(records)
      [] t = "vms"         -> convertCSVToVMs(records)

Rejected(msg) == [upload EXCEPT !.pc = "rejected", !.error = msg]

\* importDataFromFile is called with a file and an import type
UploadInit ==
    /\ importType \in UploadTypes
    /\ csvContent \in UploadContents(importType)
    /\ \E name \in UploadNames : upload = [NoUpload EXCEPT !.name = name, !.pc = "called"]
    /\ parsed = NotParsed
    /\ data = NotConverted
    /\ vms = <<>>
    /\ iamAccounts = <<>>
    /\ searchTerm = "" /\ statusFilter = "all"
    /\ platformFilter = "all" /\ projectAccountFilter = "all"
    /\ currentPage = 1
    /\ toasts = <<>>
    /\ isAddDialogOpen = FALSE
    /\ accountToEdit = <<>>
    /\ formData = InitialFormData
    /\ requests = <<>>
    /\ invalidations = 0
    /\ accountToDelete = <<>>
    /\ QueryLoaded
    /\ ImportInitial

\* parseFile up to the FileReader: the extension decides
parseFile ==
    /\ upload.pc = "called"
    /\ upload' =
          IF fileExtension(upload.name) = "csv"
          THEN [upload EXCEPT !.pc = "reading"]
          ELSE IF fileExtension(upload.name) \in {"xlsx", "xls"}
          THEN Rejected("Excel files are not directly supported")
          ELSE Rejected("Unsupported file format. Please upload a CSV file.")
    /\ UNCHANGED <<fileVars, vms, iamAccounts, filterVars, queryVars, toasts, uiVars>>

\* reader.onerror
UploadReadFails ==
    /\ upload.pc = "reading"
    /\ upload' = Rejected("Failed to read CSV file")
    /\ UNCHANGED <<fileVars, vms, iamAccounts, filterVars, queryVars, toasts, uiVars>>

\* reader.onload: importDataFromFile from the switch to the fetch
importDataFromFile ==
    /\ upload.pc = "reading"
    /\ IF importType \notin {"assets", "components", "accessories", "vms"}
       THEN /\ upload' = Rejected("Unsupported import type")
            /\ UNCHANGED <<parsed, data>>
       ELSE LET result == ParserOf(importType, csvContent)
                items  == ConverterOf(importType, result.records)
            IN  /\ parsed' = result
                /\ IF result.threw
                   THEN /\ upload' = Rejected(result.error.msg)
                        /\ UNCHANGED data
                   ELSE /\ data' = Converted(items)
                        /\ upload' =
                              IF Len(items) = 0
                              THEN Rejected("No valid data to import")
                              ELSE [upload EXCEPT
                                      !.pc = "posting",
                                      !.sent = Append(@, ImportRequest(importType, items))]
    /\ UNCHANGED <<importType, csvContent, vms, iamAccounts, filterVars, queryVars, toasts,
                   uiVars>>

\* response.ok: the promise resolves with the answer's JSON
UploadAnswered ==
    /\ upload.pc = "posting"
    /\ upload' = [upload EXCEPT !.pc = "resolved"]
    /\ UNCHANGED <<fileVars, vms, iamAccounts, filterVars, queryVars, toasts, uiVars>>

\* fetch rejects or !response.ok
UploadRefused ==
    /\ upload.pc = "posting"
    /\ upload' = Rejected("Import failed")
    /\ UNCHANGED <<fileVars, vms, iamAccounts, filterVars, queryVars, toasts, uiVars>>

UploadNext ==
    \/ parseFile
    \/ UploadReadFails
    \/ importDataFromFile
    \/ UploadAnswered
    \/ UploadRefused

UploadSpec == UploadInit /\ [][UploadNext]_vars

(***************************************************************************)
(* The account list query (useQuery) and the delete confirmation.          *)
(***************************************************************************)
\* useQuery's option retry: 1
QueryRetry == 1

\* the lists the server may answer with
ServerLists ==
    {<<>>,
     <<AccountSample("Ann Lee", <<>>, <<>>)>>,
     <<AccountSample("Ann Lee", <<>>, <<>>), AccountSample("Doe, John", <<>>, <<"Q1 access">>)>>}

QueryInit ==
    /\ importType = "none"
    /\ csvContent = ""
    /\ parsed = NotParsed
    /\ data = NotConverted
    /\ vms = <<>>
    /\ iamAccounts = <<>>
    /\ searchTerm = "" /\ statusFilter = "all"
    /\ platformFilter = "all" /\ projectAccountFilter = "all"
    /\ currentPage = 1
    /\ toasts = <<>>
    /\ isAddDialogOpen = FALSE
    /\ accountToEdit = <<>>
    /\ formData = InitialFormData
    /\ requests = <<>>
    /\ invalidations = 0
    /\ accountToDelete = <<>>
    /\ QueryMounted
    /\ upload = NoUpload
    /\ ImportInitial

\* the GET is answered OK with a list
QueryFetchSucceeds(list) ==
    /\ queryStatus = "fetching"
    /\ iamAccounts' = list
    /\ queryStatus' = "success"
    /\ failureCount' = 0
    /\ UNCHANGED <<fileVars, vms, filterVars, getsSent, upload, toasts, pageVars,
                   accountToDelete, importVars>>

\* the GET fails: queryFn throws; the query sends it again while retries are left
QueryFetchFails ==
    /\ queryStatus = "fetching"
    /\ IF failureCount < QueryRetry
       THEN /\ getsSent < MaxFetches
            /\ getsSent' = getsSent + 1
            /\ UNCHANGED queryStatus
       ELSE /\ queryStatus' = "error"
            /\ UNCHANGED getsSent
    /\ failureCount' = failureCount + 1
    /\ UNCHANGED <<fileVars, vms, iamAccounts, filterVars, upload, toasts, pageVars,
                   accountToDelete, importVars>>

\* the query fetches again: staleTime 0, after an invalidation or a window focus
Refetch ==
    /\ queryStatus # "fetching"
    /\ getsSent < MaxFetches
    /\ queryStatus' = "fetching"
    /\ failureCount' = 0
    /\ getsSent' = getsSent + 1
    /\ UNCHANGED <<fileVars, vms, iamAccounts, filterVars, upload, toasts, pageVars,
                   accountToDelete, importVars>>

QueryNext ==
    \/ \E list \in ServerLists : QueryFetchSucceeds(list)
    \/ QueryFetchFails
    \/ Refetch
    \/ \E i \in 1..Len(iamAccounts) : ClickDelete(iamAccounts[i])
    \/ CloseDeleteDialog
    \/ handleDelete
    \/ \E i \in 1..Len(requests) : DeleteSucceeds(i)
    \/ \E i \in 1..Len(requests) : DeleteFails(i)

QuerySpec == QueryInit /\ [][QueryNext]_vars

(***************************************************************************)
(* The handlers of the page together: submit, delete and import.           *)
(***************************************************************************)
\* another operation may start
OperationsLeft == Len(requests) + Len(imports) < MaxOperations

\* the files chosen here: one whose row is kept and one whose row is omitted
HandlerFiles == {file \in ImportFiles : file.name \in {"plain.csv", "norows.csv"}}

HandlersNext ==
    \/ ClickAdd
    \/ \E i \in 1..Len(iamAccounts) : handleEdit(iamAccounts[i])
    \/ \E field \in DOMAIN FormInputs : \E value \in FormInputs[field] \ {""} :
          ChangeField(field, value)
    \/ OperationsLeft /\ handleSubmit
    \/ \E i \in 1..Len(requests) : SubmitSucceeds(i)
    \/ \E i \in 1..Len(requests) : SubmitFails(i)
    \/ ClickCancel
    \/ \E i \in 1..Len(iamAccounts) : ClickDelete(iamAccounts[i])
    \/ CloseDeleteDialog
    \/ OperationsLeft /\ handleDelete
    \/ \E i \in 1..Len(requests) : DeleteSucceeds(i)
    \/ \E i \in 1..Len(requests) : DeleteFails(i)
    \/ OpenImportDialog
    \/ \E file \in HandlerFiles : handleFileChange(file)
    \/ OperationsLeft /\ ImportEnabled /\ handleImportCSV
    \/ \E i \in 1..Len(imports) : FileLoaded(i)
    \/ \E i \in 1..Len(imports) : FileReadFails(i)
    \/ \E i \in 1..Len(imports) : ImportSucceeds(i)
    \/ \E i \in 1..Len(imports) : ImportFails(i)
    \/ CancelImport

HandlersSpec == PageInit /\ [][HandlersNext]_vars

(***************************************************************************)
(* Properties of the parsers.                                              *)
(***************************************************************************)
Parsed == importType # "none" /\ parsed # NotParsed

HeaderLine(content) == split(content, "\n")[1]

\* C1: a content with no newline (fewer than two lines, the empty string included)
\* makes each of the five parsers throw the header-and-data-row error and return
\* no records.
C1_HeaderAndDataRowRequired ==
    ~includes(csvContent, "\n") =>
        /\ \A t \in ImportTypes :
              ParserOf(t, csvContent) = Throw(ErrTooFewLines, 0, 0, 0, <<>>)
        /\ Parsed => /\ parsed.threw
                     /\ parsed.error.msg = ErrTooFewLines
                     /\ parsed.records = <<>>

C1_Witness ==
    /\ importType = "vms"
    /\ csvContent = "VMID,VmName,Hypervisor"
    /\ parsed.threw
    /\ parsed.error.msg = ErrTooFewLines

\* the data lines of a file that parsed without error, blank lines dropped
NonBlankDataLines(content) ==
    SelectSeq(Tail(split(content, "\n")), LAMBDA l : trim(l) # "")

\* the trimmed value of a data line in the last column whose header maps to property p
ColumnValue(headers, line, p) ==
    LET i == CHOOSE i \in 1..Len(headers) :
                /\ VMField(headers[i]) = <<p>>
                /\ \A j \in 1..Len(headers) : VMField(headers[j]) = <<p>> => j <= i
    IN  trim(split(line, ",")[i])

NamesVMColumns(headers) ==
    \A p \in {"vmId", "vmName", "hypervisor"} :
        \E i \in 1..Len(headers) : VMField(headers[i]) = <<p>>

\* C2: parseVMCSV accepts a header row that names the VM id, the VM name and the
\* hypervisor by any listed alias in any letter case, and the records it returns
\* take vmId and vmName from those columns.
C2_VMHeaderAliasesAccepted ==
    (/\ Parsed /\ importType = "vms" /\ includes(csvContent, "\n")
     /\ NamesVMColumns(ParseHeaders(HeaderLine(csvContent)))) =>
        /\ parsed.error.msg # ErrMissingHeaders
        /\ ~parsed.threw =>
              LET headers == ParseHeaders(HeaderLine(csvContent))
                  rows    == NonBlankDataLines(csvContent)
              IN  /\ Len(parsed.records) = Len(rows)
                  /\ \A r \in 1..Len(rows) :
                        /\ parsed.records[r]["vmId"] = ColumnValue(headers, rows[r], "vmId")
                        /\ parsed.records[r]["vmName"] = ColumnValue(headers, rows[r], "vmName")

UpperChar(c) ==
    CASE c = "a" -> "A" [] c = "b" -> "B" [] c = "c" -> "C" [] c = "d" -> "D"
      [] c = "e" -> "E" [] c = "f" -> "F" [] c = "g" -> "G" [] c = "h" -> "H"
      [] c = "i" -> "I" [] c = "j" -> "J" [] c = "k" -> "K" [] c = "l" -> "L"
      [] c = "m" -> "M" [] c = "n" -> "N" [] c = "o" -> "O" [] c = "p" -> "P"
      [] c = "q" -> "Q" [] c = "r" -> "R" [] c = "s" -> "S" [] c = "t" -> "T"
      [] c = "u" -> "U" [] c = "v" -> "V" [] c = "w" -> "W" [] c = "x" -> "X"
      [] c = "y" -> "Y" [] c = "z" -> "Z" [] OTHER -> c

RECURSIVE UpperCased(_)
UpperCased(s) ==
    IF s = "" THEN ""
    ELSE IF Len(s) = 1 THEN UpperChar(s)
    ELSE LET mid == Len(s) \div 2
         IN  UpperCased(SubSeq(s, 1, mid)) \o UpperCased(SubSeq(s, mid + 1, Len(s)))

\* every second letter upper case, the others lower case
RECURSIVE MixedCased(_, _)
MixedCased(s, up) ==
    IF s = "" THEN ""
    ELSE IF Len(s) = 1 THEN (IF up THEN UpperChar(s) ELSE LowerChar(s))
    ELSE LET mid == Len(s) \div 2
         IN  MixedCased(SubSeq(s, 1, mid), up)
             \o MixedCased(SubSeq(s, mid + 1, Len(s)), up = (mid % 2 = 0))

\* every header cell with whitespace around it
PaddedCells(h) ==
    LET cells == split(h, ",")
    IN  join([i \in 1..Len(cells) |-> "\t " \o cells[i] \o " "], ",")

\* the file with its header row replaced
WithHeaderLine(content, header) ==
    header \o SubSeq(content, Len(HeaderLine(content)) + 1, Len(content))

\* the same file with only letter case and surrounding whitespace of the header
\* cells changed
HeaderVariants(content) ==
    LET h == HeaderLine(content)
    IN  {WithHeaderLine(content, v) :
            v \in {UpperCased(h), toLowerCase(h), MixedCased(h, TRUE),
                   PaddedCells(h)}}

\* C3: changing only letter case and surrounding whitespace of the header cells
\* leaves the outcome of each parser unchanged: same records or same error.
C3_HeaderCaseInsensitive ==
    Parsed => \A v \in HeaderVariants(csvContent) : ParserOf(importType, v) = parsed

C3_Witness ==
    /\ Parsed
    /\ importType = "components"
    /\ HeaderLine(csvContent) = "Name, CATEGORY "
    /\ Len(parsed.records) = 2

IsQuoted(cell) ==
    Len(cell) >= 2 /\ CharAt(cell, 1) = "\"" /\ CharAt(cell, Len(cell)) = "\""

Unquote(cell) == IF IsQuoted(cell) THEN SubSeq(cell, 2, Len(cell) - 1) ELSE cell

UnquoteLine(line) ==
    LET cells == split(line, ",")
    IN  join([i \in 1..Len(cells) |-> Unquote(cells[i])], ",")

\* the same file with every wholly quoted data value written without its quotes
Unquoted(content) ==
    LET lines == split(content, "\n")
    IN  join([i \in 1..Len(lines) |-> IF i = 1 THEN lines[1] ELSE UnquoteLine(lines[i])],
             "\n")

HasQuotedValue(content) ==
    \E i \in 2..Len(split(content, "\n")) :
        \E c \in 1..Len(split(split(content, "\n")[i], ",")) :
            IsQuoted(split(split(content, "\n")[i], ",")[c])

\* C4: in every parser a data value wholly enclosed in double quotes is imported as
\* the text between the quotes: the outcome equals that of the file in which the
\* value is written without quotes.
C4_QuotedValuesOptional ==
    (Parsed /\ HasQuotedValue(csvContent)) =>
        ParserOf(importType, Unquoted(csvContent)) = parsed

RequiredProperties(t) ==
    CASE t \in {"components", "accessories"} -> {"name", "category"}
      [] t = "vms" -> {"vmId", "vmName", "hypervisor"}
      [] t = "iam" -> {"requestor", "knoxId", "permission", "cloudPlatform"}
      [] OTHER -> {}

\* C9: every record returned by parseComponentCSV and parseAccessoryCSV has a
\* non-empty name and category, every record of parseVMCSV a non-empty vmId, vmName
\* and hypervisor, every account of parseCSVData a non-empty requestor, knoxId,
\* permission and cloudPlatform.
C9_RequiredFieldsPresent ==
    Parsed =>
        \A r \in 1..Len(parsed.records) :
            \A p \in RequiredProperties(importType) :
                /\ p \in DOMAIN parsed.records[r]
                /\ parsed.records[r][p] # ""

C9_Witness ==
    /\ Parsed
    /\ importType = "iam"
    /\ Len(parsed.records) = 1

\* C10: every asset returned by parseCSV has a non-empty serialNumber.
C10_SerialNumberRequired ==
    (Parsed /\ importType = "assets") =>
        \A r \in 1..Len(parsed.records) :
            /\ "serialNumber" \in DOMAIN parsed.records[r]
            /\ parsed.records[r]["serialNumber"] # ""

(***************************************************************************)
(* Properties of export followed by import.                                *)
(***************************************************************************)
NoSpecialChars(s) ==
    /\ ~includes(s, "\"") /\ ~includes(s, "\n") /\ ~includes(s, "\r")
    /\ trim(s) = s

CleanText(s) == NoSpecialChars(s) /\ ~includes(s, ",")

\* a null optional field is exported, and read back, as the empty string
NullAsEmpty(opt) == IF opt = <<>> THEN "" ELSE opt[1]

\* the ten exported fields of an account
ExportedFields(account) ==
    [requestor         |-> account.requestor,
     knoxId            |-> account.knoxId,
     permission        |-> account.permission,
     durationStartDate |-> NullAsEmpty(account.durationStartDate),
     durationEndDate   |-> NullAsEmpty(account.durationEndDate),
     cloudPlatform     |-> account.cloudPlatform,
     projectAccounts   |-> NullAsEmpty(account.projectAccounts),
     approvalId        |-> NullAsEmpty(account.approvalId),
     remarks           |-> NullAsEmpty(account.remarks),
     status            |-> account.status]

ExportedFieldNames ==
    {"requestor", "knoxId", "permission", "durationStartDate", "durationEndDate",
     "cloudPlatform", "projectAccounts", "approvalId", "remarks", "status"}

HasRequiredFields(account) ==
    /\ account.requestor # "" /\ account.knoxId # ""
    /\ account.permission # "" /\ account.cloudPlatform # ""

\* the exported values of an account hold no quote, no newline, no surrounding space
NoSpecialCharsIn(account) ==
    \A f \in ExportedFieldNames : NoSpecialChars(ExportedFields(account)[f])

\* ... and no comma either
CleanAccount(account) ==
    \A f \in ExportedFieldNames : CleanText(ExportedFields(account)[f])

\* parseCSVData has read the file that handleExportCSV wrote for iamAccounts
ImportedOwnExport == Parsed /\ importType = "iam" /\ iamAccounts # <<>>

\* C5: an account field that contains a comma is exported in double quotes and read
\* back by parseCSVData as one field with the original value, the other columns of
\* the row keeping position and value.
C5_QuotedCommaFieldReadBack ==
    (/\ ImportedOwnExport
     /\ \A i \in 1..Len(iamAccounts) :
           HasRequiredFields(iamAccounts[i]) /\ NoSpecialCharsIn(iamAccounts[i])) =>
        /\ ~parsed.threw
        /\ Len(parsed.records) = Len(iamAccounts)
        /\ \A i \in 1..Len(iamAccounts) :
              parsed.records[i] = ExportedFields(iamAccounts[i])

\* C6: for accounts whose required fields are non-empty and whose values hold no
\* comma, quote, newline or surrounding whitespace, parseCSVData of the text written
\* by handleExportCSV returns as many accounts, in the same order, with the same ten
\* exported fields, a null optional field reading back as the empty string.
C6_IAMExportImportRoundTrip ==
    (/\ ImportedOwnExport
     /\ \A i \in 1..Len(iamAccounts) :
           HasRequiredFields(iamAccounts[i]) /\ CleanAccount(iamAccounts[i])) =>
        parsed = Return([i \in 1..Len(iamAccounts) |-> ExportedFields(iamAccounts[i])])

C6_Witness ==
    /\ ImportedOwnExport
    /\ Len(iamAccounts) = 2
    /\ \A i \in 1..2 : CleanAccount(iamAccounts[i])
    /\ iamAccounts[1].remarks = <<>> /\ iamAccounts[2].remarks # <<>>
    /\ Len(parsed.records) = 2

CleanVM(vm) ==
    /\ \A i \in 1..Len(VMStringFields) :
          vm[VMStringFields[i]] # "" /\ CleanText(vm[VMStringFields[i]])
    /\ vm.dateDeleted = <<>>

WithoutId(vm) == [k \in DOMAIN vm \ {"id"} |-> vm[k]]

\* C7: for a non-empty list of VMs with non-empty string fields free of comma,
\* quote, newline and surrounding whitespace and with dateDeleted null,
\* convertCSVToVMs(parseVMCSV(convertToCSV(vms))) is the list with the id removed.
C7_VMExportImportRoundTrip ==
    (/\ Parsed /\ importType = "vms" /\ vms # <<>>
     /\ \A i \in 1..Len(vms) : CleanVM(vms[i])) =>
        /\ ~parsed.threw
        /\ data.converted => data.items = [i \in 1..Len(vms) |-> WithoutId(vms[i])]

C7_Witness ==
    /\ importType = "vms" /\ data.converted
    /\ Len(vms) = 2 /\ CleanVM(vms[1]) /\ CleanVM(vms[2])
    /\ vms[1].internetAccess /\ ~vms[2].internetAccess
    /\ Len(data.items) = 2

(***************************************************************************)
(* Properties of the add/edit dialog.                                      *)
(***************************************************************************)
RequiredFormFields == {"requestor", "knoxId", "permission", "cloudPlatform"}

SomeRequiredFieldEmpty == \E f \in RequiredFormFields : formData[f] = ""

\* C8: when handleSubmit runs while requestor, knoxId, permission or cloudPlatform
\* is empty, it sends no create or update request, shows a 'Validation Error'
\* toast and leaves the dialog open flag, the form data and the account being
\* edited unchanged.
C8_IncompleteFormNotSent ==
    [][(handleSubmit /\ SomeRequiredFieldEmpty) =>
          /\ requests' = requests
          /\ toasts' = Append(toasts, Toast("Validation Error", "destructive"))
          /\ isAddDialogOpen' = isAddDialogOpen
          /\ formData' = formData
          /\ accountToEdit' = accountToEdit]_vars

C8_Witness ==
    /\ isAddDialogOpen
    /\ accountToEdit # <<>>
    /\ formData.requestor # "" /\ formData.knoxId # "" /\ formData.permission # ""
    /\ formData.cloudPlatform = ""
    /\ requests = <<>>
    /\ toasts = <<Toast("Validation Error", "destructive")>>

(***************************************************************************)
(* Properties of the CSV import dialog.                                    *)
(***************************************************************************)
\* the requests sent to POST /api/iam-accounts/import so far
Posted == {i \in 1..Len(imports) : imports[i].pc \in {"posting", "done"}}

\* the text in the status column of a data line, "" when there is none
StatusText(headers, line) ==
    LET cells == split(trim(line), ",")
        cols  == {c \in 1..Len(headers) : headers[c] = "status" /\ c <= Len(cells)}
    IN  IF cols = {} THEN ""
        ELSE AccountValue(cells[CHOOSE c \in cols : \A d \in cols : d <= c])

\* C11: every account sent to POST /api/iam-accounts/import has a status that is
\* one of active, expired, extended, access_removed; a row with no status column
\* or an empty status gets active.
C11_ImportedStatusEnumerated ==
    \A i \in Posted :
        /\ \A k \in 1..Len(imports[i].accounts) : imports[i].accounts[k].status \in statusTypes
        /\ LET lines   == split(imports[i].file.content, "\n")
               headers == ParseHeaders(lines[1])
           IN  \A l \in 2..Len(lines) :
                  LET row == AccountOfLine(headers, lines[l])
                  IN  (row # <<>> /\ StatusText(headers, lines[l]) = "")
                          => row[1].status = "active"

(***************************************************************************)
(* Properties of the convertCSVTo* functions.                              *)
(***************************************************************************)
ConvertedAs(t) == importType = t /\ parsed # NotParsed /\ data.converted

AbsentOrEmpty(obj, k) == k \notin DOMAIN obj \/ obj[k] = ""

\* the text of a property, "" when it is absent
TextOf(obj, k) == IF k \in DOMAIN obj THEN obj[k] ELSE ""

\* the condition the claim states for an input text
StatedCondition(text) ==
    LET c == trim(text)
    IN  CASE c = "" -> "Good"
          [] c # "" /\ toLowerCase(c) \in {"bad", "poor", "damaged"} -> "Bad"
          [] c # "" /\ toLowerCase(c) \in {"good", "excellent", "working"} -> "Good"
          [] OTHER -> c

\* C12: convertCSVToAssets returns one asset per input in the same order, each with
\* a non-empty category, status and condition: category defaults to 'Laptop',
\* status to AssetStatus.AVAILABLE, condition to 'Good' when the input is absent,
\* empty or (condition) only whitespace; bad/poor/damaged give 'Bad' and
\* good/excellent/working 'Good' whatever the case; any other condition is kept
\* trimmed; every other absent optional field becomes null.
C12_AssetDefaults ==
    ConvertedAs("assets") =>
        /\ Len(data.items) = Len(parsed.records)
        /\ \A i \in 1..Len(parsed.records) :
              LET csvAsset == parsed.records[i]
                  asset    == data.items[i]
              IN  /\ asset.serialNumber = TextOf(csvAsset, "serialNumber")
                  /\ asset.category # "" /\ asset.status # "" /\ asset.condition # ""
                  /\ asset.category = IF AbsentOrEmpty(csvAsset, "category")
                                      THEN "Laptop" ELSE csvAsset["category"]
                  /\ asset.status = IF AbsentOrEmpty(csvAsset, "status")
                                    THEN AssetStatusAVAILABLE ELSE csvAsset["status"]
                  /\ asset.condition = StatedCondition(TextOf(csvAsset, "condition"))
                  /\ \A k \in DOMAIN asset \ {"serialNumber", "category", "status",
                                                "condition"} :
                        /\ k \notin DOMAIN csvAsset => asset[k] = <<>>
                        /\ ~AbsentOrEmpty(csvAsset, k) => asset[k] = <<csvAsset[k]>>

C12_Witness ==
    /\ ConvertedAs("assets")
    /\ Len(parsed.records) = 2
    /\ TextOf(parsed.records[1], "condition") = " POOR "
    /\ data.items[1].condition = "Bad"
    /\ "category" \notin DOMAIN parsed.records[1]
    /\ TextOf(parsed.records[2], "condition") = " Fair "
    /\ data.items[2].notes = <<"spare">>

\* C13: convertCSVToVMs returns one VM per input in the same order; every string
\* field is non-empty (an absent or empty input becomes 'N/A', vmStatus becomes
\* 'Provisioning'), dateDeleted is null, and internetAccess is true exactly when
\* the input text, lower-cased, is 'true', 'yes' or '1'.
C13_VMDefaults ==
    ConvertedAs("vms") =>
        /\ Len(data.items) = Len(parsed.records)
        /\ \A i \in 1..Len(parsed.records) :
              LET csvVM == parsed.records[i]
                  vm    == data.items[i]
              IN  /\ \A f \in 1..Len(VMStringFields) :
                        LET k == VMStringFields[f]
                        IN  /\ vm[k] # ""
                            /\ vm[k] = IF ~AbsentOrEmpty(csvVM, k) THEN csvVM[k]
                                       ELSE IF k = "vmStatus" THEN "Provisioning"
                                       ELSE "N/A"
                  /\ vm.dateDeleted = <<>>
                  /\ vm.internetAccess =
                        (toLowerCase(TextOf(csvVM, "internetAccess")) \in {"true", "yes", "1"})

C13_Witness ==
    /\ ConvertedAs("vms")
    /\ Len(parsed.records) = 2
    /\ TextOf(parsed.records[1], "internetAccess") = "Yes"
    /\ data.items[1].internetAccess
    /\ data.items[1].vmStatus = "Provisioning"
    /\ "internetAccess" \notin DOMAIN parsed.records[2]
    /\ ~data.items[2].internetAccess
    /\ data.items[2].vmIp = "N/A"

JSInteger(number) == ~number.nan

\* the data was converted by convertCSVToComponents or convertCSVToAccessories
QuantityConverted == ConvertedAs("components") \/ ConvertedAs("accessories")

\* the text is an optional sign and decimal digits, nothing else
DenotesInteger(text) ==
    LET body == IF text # "" /\ CharAt(text, 1) \in {"+", "-"}
                THEN SubSeq(text, 2, Len(text)) ELSE text
    IN  body # "" /\ DigitsPrefix(body, 10) = Len(body)

\* C14: convertCSVToComponents and convertCSVToAccessories set quantity to an
\* integer: 1 when the quantity text is absent or empty, otherwise the integer the
\* text denotes; the result is never a non-number.
C14_QuantityIsInteger ==
    QuantityConverted =>
        \A i \in 1..Len(parsed.records) :
            LET text     == TextOf(parsed.records[i], "quantity")
                quantity == data.items[i].quantity
            IN  /\ JSInteger(quantity)
                /\ text = "" => quantity = Num(1)
                /\ DenotesInteger(text) => quantity = parseInt(text)

(***************************************************************************)
(* Properties of the handlers together.                                    *)
(***************************************************************************)
\* a create, update, delete or import fails in this step
OperationFails ==
    \/ \E i \in 1..Len(requests) :
          requests[i].status = "pending" /\ requests'[i].status = "failed"
    \/ \E i \in 1..Len(imports) :
          imports[i].pc \in {"reading", "posting"} /\ imports'[i].pc = "failed"

SuccessTitles ==
    {"Account Created", "Account Updated", "Account Deleted", "Import successful"}

Succeeded ==
    Cardinality({i \in 1..Len(requests) : requests[i].status = "ok"})
    + Cardinality({i \in 1..Len(imports) : imports[i].pc = "done"})

\* C15: a failing create, update, delete or import is caught in its handler: the
\* step shows exactly one toast, a destructive one, and the operation gets no
\* success toast, so there are never more success toasts than operations that
\* succeeded.
C15_FailuresShownAsToasts ==
    /\ [][OperationFails =>
            /\ Len(toasts') = Len(toasts) + 1
            /\ SubSeq(toasts', 1, Len(toasts)) = toasts
            /\ toasts'[Len(toasts')].variant = "destructive"
            /\ toasts'[Len(toasts')].title \notin SuccessTitles]_vars
    /\ [](Cardinality({k \in 1..Len(toasts) : toasts[k].title \in SuccessTitles})
             = Succeeded)

C15_Witness ==
    /\ \E i \in 1..Len(requests) :
          requests[i].status = "failed" /\ requests[i].method = "DELETE"
    /\ \E i \in 1..Len(imports) :
          imports[i].pc = "failed" /\ imports[i].accounts # <<>>
    /\ toasts = <<Toast("Error", "destructive"), Toast("Import failed", "destructive")>>

\* C16: a request that fails is not sent again by itself: a failed GET of the
\* account list is sent once and its error is reported, and a failed create,
\* update, delete or import starts no further request.
C16_NoRetry ==
    [][/\ QueryFetchFails => (getsSent' = getsSent /\ queryStatus' = "error")
       /\ OperationFails => (Len(requests') = Len(requests)
                                /\ Len(imports') = Len(imports))]_vars

\* the name ends in ".csv", in any letter case
HasCsvExtension(name) ==
    /\ Len(name) >= 4
    /\ toLowerCase(SubSeq(name, Len(name) - 3, Len(name))) = ".csv"

\* the call of importDataFromFile has ended without a request
RejectedUnsent == upload.pc = "rejected" /\ upload.sent = <<>>

\* C17: importDataFromFile sends at most one request, POST /api/<importType>/import
\* with body {<importType>: records}, and only when the file name has the csv
\* extension, the content was parsed and converted without error and the list is
\* non-empty; in every other case it rejects and no request is sent.
C17_OneImportRequest ==
    /\ Len(upload.sent) <= 1
    /\ \A i \in 1..Len(upload.sent) :
          /\ upload.sent[i] = [method |-> "POST",
                               url    |-> "/api/" \o importType \o "/import",
                               body   |-> (importType :> data.items)]
          /\ HasCsvExtension(upload.name)
          /\ importType \in {"assets", "components", "accessories", "vms"}
          /\ parsed # NotParsed /\ ~parsed.threw
          /\ data.converted /\ Len(data.items) > 0
    /\ upload.pc \in {"resolved", "rejected"} =>
          (upload.sent = <<>> => upload.pc = "rejected")
    /\ upload.pc \notin {"idle", "called", "reading"} =>
          (~HasCsvExtension(upload.name) => RejectedUnsent)
    /\ upload.pc \notin {"idle", "called", "reading"} =>
          ((\/ importType \notin {"assets", "components", "accessories", "vms"}
            \/ parsed.threw
            \/ (data.converted /\ Len(data.items) = 0)) => RejectedUnsent)

\* the columns a file of the type must name, as its parser lists them
RequiredHeaders(t) ==
    IF t = "vms" THEN VMRequiredHeaders ELSE <<"name", "category">>

FieldOf(t, header) ==
    CASE t = "components"  -> ComponentField(header)
      [] t = "accessories" -> AccessoryField(header)
      [] t = "vms"         -> VMField(header)

\* a non-blank data row whose value count differs from the header's column count
\* or that has no text in the column of a required property
BadRow(t, headers, line) ==
    /\ trim(line) # ""
    /\ LET cells == split(line, ",")
       IN  \/ Len(cells) # Len(headers)
           \/ \E p \in RequiredProperties(t) :
                 \A i \in 1..Len(headers) :
                    (/\ FieldOf(t, headers[i]) = <<p>>
                     /\ \A j \in 1..Len(headers) : FieldOf(t, headers[j]) = <<p>> => j <= i)
                    => trim(cells[i]) = ""

\* the file lines (the header row being line 1) that hold a bad row
BadLines(t, content) ==
    LET lines == split(content, "\n")
    IN  {i \in 2..Len(lines) : BadRow(t, ParseHeaders(lines[1]), lines[i])}

C19_ExportCoversFilteredList ==
    [][handleExportCSV =>
         IF Len(filteredAccounts) = 0
         THEN /\ csvContent' = csvContent
              /\ toasts' = Append(toasts, Toast("No data to export", "destructive"))
         ELSE LET lines == split(csvContent', "\n")
              IN  /\ Len(lines) = 1 + Len(filteredAccounts)
                  /\ lines[1] = join(csvHeaders, ",")
                  /\ \A i \in 1..Len(filteredAccounts) :
                        lines[i + 1] = AccountRow(filteredAccounts[i])]_vars

\* C20: whatever edit clicks, dismissals of the dialog, submits and failures came
\* before, the dialog that the 'Add IAM Account' button opens has no account to
\* edit (accountToEdit is null), so that a submit made from it issues a create
\* (POST) and never an update (PUT).
C20_AddDialogCreates ==
    [][ClickAdd => accountToEdit' = <<>>]_vars

\* C21: the page shown stays in range, 1 <= currentPage <= max(1, totalPages), so
\* that whenever the filtered list is non-empty the page shown holds at least one
\* account and the table does not say 'No accounts match the current filters'.
C21_PageInRange ==
    /\ 1 <= currentPage
    /\ currentPage <= (IF totalPages > 1 THEN totalPages ELSE 1)
    /\ Len(filteredAccounts) > 0 =>
          /\ Len(paginatedAccounts) > 0
          /\ EmptyTableText = <<>>

\* the page numbers of the list, ellipses left out
ListedNumbers(pages) == SelectSeq(pages, LAMBDA p : p # Ellipsis)

\* an ellipsis stands right after the number n
EllipsisAfter(pages, n) ==
    \E i \in 1..(Len(pages) - 1) : pages[i] = <<n>> /\ pages[i + 1] = Ellipsis

\* C22: for totalPages >= 1 and 1 <= currentPage <= totalPages the list of
\* generatePageNumbers contains 1, totalPages and currentPage, lists its numbers in
\* strictly increasing order, never has two adjacent ellipses, has an ellipsis
\* between two consecutive listed numbers exactly when they differ by more than 1,
\* and is exactly 1..totalPages when totalPages <= 5.
C22_PageNumbersWellFormed ==
    (totalPages >= 1 /\ currentPage \in 1..totalPages) =>
        LET pages == generatePageNumbers
            nums  == ListedNumbers(pages)
        IN  /\ \A n \in {1, totalPages, currentPage} : \E i \in 1..Len(nums) : nums[i] = <<n>>
            /\ \A i \in 1..(Len(nums) - 1) : nums[i][1] < nums[i + 1][1]
            /\ \A i \in 1..(Len(pages) - 1) : ~(pages[i] = Ellipsis /\ pages[i + 1] = Ellipsis)
            /\ pages # <<>> => pages[1] # Ellipsis /\ pages[Len(pages)] # Ellipsis
            /\ \A i \in 1..(Len(nums) - 1) :
                  EllipsisAfter(pages, nums[i][1]) <=> nums[i + 1][1] - nums[i][1] > 1
            /\ totalPages <= 5 => pages = PageRange(1, totalPages)

\* page 5 of 8: 1 ... 4 5 6 ... 8
C22_Witness ==
    /\ totalPages = 8
    /\ currentPage = 5
    /\ generatePageNumbers = <<<<1>>, Ellipsis, <<4>>, <<5>>, <<6>>, Ellipsis, <<8>>>>

\* the runs of handleImportCSV that have not ended
InFlight == {i \in 1..Len(imports) : imports[i].pc \in {"reading", "posting"}}

\* C23: at most one IAM import is in flight at any time; while one is, importStatus
\* is 'uploading', and while importStatus is 'uploading' no further import starts
\* and the import state (status, progress) is left alone until the running import
\* ends in success or error.
C23_OneImportInFlight ==
    /\ [](/\ Cardinality(InFlight) <= 1
          /\ InFlight # {} => importStatus = "uploading"
          /\ importStatus = "uploading" => InFlight # {})
    /\ [][importStatus = "uploading" =>
            /\ Len(imports') = Len(imports)
            /\ \/ importStatus' = "uploading" /\ importProgress' >= importProgress
               \/ \E i \in InFlight : imports'[i].pc \in {"done", "failed"}]_vars

\* a second import is posting after the first one failed, the dialog closed meanwhile
C23_Witness ==
    /\ Len(imports) = 2
    /\ imports[1].pc = "failed"
    /\ imports[2].pc = "posting"
    /\ importStatus = "uploading"
    /\ ~isImportDialogOpen

\* the step ends a run of handleImportCSV in the given way
ImportEnds(pc) == \E i \in InFlight : imports'[i].pc = pc

\* C24: an import started with a chosen file ends in one of two states.  On
\* success importStatus is 'idle', importProgress 0, importFile null and the dialog
\* closed, and the progress shows 100 at no time before the server answered OK.  On
\* failure (file read, parse or HTTP error) importStatus is 'error', the chosen
\* file is kept, the dialog is left as it was, importProgress keeps its last value
\* below 100 and the Import button is enabled again.  Called with no file chosen
\* the handler changes no import state and sends nothing.
C24_ImportOutcome ==
    /\ [][ImportEnds("done") =>
            /\ importStatus' = "idle"
            /\ importProgress' = 0
            /\ importFile' = <<>>
            /\ ~isImportDialogOpen'
            /\ \E i \in InFlight : imports[i].pc = "posting"]_vars
    /\ [][ImportEnds("failed") =>
            /\ importStatus' = "error"
            /\ importFile' = importFile /\ importFile' # <<>>
            /\ isImportDialogOpen' = isImportDialogOpen
            /\ importProgress' \in {25, 50, 75}
            /\ importProgress' >= importProgress
            /\ ImportEnabled']_vars
    /\ [](/\ importProgress < 100
          /\ \A i \in 1..Len(imports) : imports[i].pc \in {"reading", "posting", "done", "failed"})
    /\ [][(handleImportCSV /\ importFile = <<>>) =>
            /\ UNCHANGED <<importVars, requests, invalidations>>]_vars

\* one import failed at the server and a call without a file was answered
C24_Witness ==
    /\ Len(imports) = 1
    /\ imports[1].pc = "failed"
    /\ importStatus = "error"
    /\ importProgress = 75
    /\ importFile = <<imports[1].file>>
    /\ \E i \in 1..Len(toasts) : toasts[i].title = "No file selected"

\* the step settles a pending create or update request with the given status
SubmitSettles(status) ==
    \E i \in 1..Len(requests) :
        /\ requests[i].method \in {"POST", "PUT"}
        /\ requests[i].status = "pending"
        /\ requests'[i].status = status

\* C25: when the create or update request of a valid submit succeeds, the dialog
\* is closed, accountToEdit becomes null and the form is reset to its empty
\* defaults with status 'active'; when it fails, the handler leaves the dialog
\* open flag, the form data and accountToEdit as they are.
C25_SubmitOutcome ==
    /\ [][SubmitSettles("ok") =>
            /\ ~isAddDialogOpen'
            /\ accountToEdit' = <<>>
            /\ formData' = InitialFormData
            /\ formData'.status = "active"
            /\ \A f \in RequiredFormFields : formData'[f] = ""]_vars
    /\ [][SubmitSettles("failed") =>
            /\ isAddDialogOpen' = isAddDialogOpen
            /\ formData' = formData
            /\ accountToEdit' = accountToEdit]_vars

\* an update failed: the dialog is open with the submitted data and its account
C25_Witness ==
    /\ Len(requests) = 1
    /\ requests[1].method = "PUT"
    /\ requests[1].status = "failed"
    /\ isAddDialogOpen
    /\ formData = requests[1].data
    /\ accountToEdit # <<>>

\* the step ends a create, update, delete or import with success
OperationSucceeds ==
    \/ \E i \in 1..Len(requests) :
          requests[i].status = "pending" /\ requests'[i].status = "ok"
    \/ \E i \in 1..Len(imports) :
          imports[i].pc \in {"reading", "posting"} /\ imports'[i].pc = "done"

\* C26: every successful create, update, delete and CSV import invalidates the
\* ['/api/iam-accounts'] query, which sends the GET of the list again; a failed
\* create, update, delete or import invalidates nothing.
C26_SuccessInvalidatesQuery ==
    /\ [][OperationSucceeds =>
            /\ invalidations' = invalidations + 1
            /\ queryStatus' = "fetching"
            /\ getsSent' = getsSent + 1]_vars
    /\ [][OperationFails => UNCHANGED <<invalidations, queryVars>>]_vars
    /\ [](invalidations = Succeeded)

\* a delete and an import have succeeded, each with its invalidation
C26_Witness ==
    /\ \E i \in 1..Len(requests) : requests[i].method = "DELETE" /\ requests[i].status = "ok"
    /\ \E i \in 1..Len(imports) : imports[i].pc = "done"
    /\ invalidations = 2
    /\ getsSent = 3

\* the create and update requests that are in flight
PendingSubmits ==
    {i \in 1..Len(requests) : requests[i].status = "pending" /\ requests[i].method # "DELETE"}

\* the DELETE requests for the account id that are in flight
PendingDeletes(id) ==
    {i \in 1..Len(requests) : /\ requests[i].status = "pending"
                              /\ requests[i].method = "DELETE"
                              /\ requests[i].id = <<id>>}

\* C27: while a create or update request started by handleSubmit is in flight
\* no second one is started, and while a DELETE for an account is in flight no
\* second DELETE for that account is started.
C27_OneRequestPerAction ==
    /\ Cardinality(PendingSubmits) <= 1
    /\ \A i \in 1..Len(requests) :
          requests[i].method = "DELETE" => Cardinality(PendingDeletes(requests[i].id[1])) <= 1

\* the values of a data line as parseCSV reads them
AssetLineValues(line) ==
    LET cells == split(line, ",") IN [i \in 1..Len(cells) |-> AssetValue(cells[i])]

\* the header columns in which the line has a value that is not empty and not 'N/A'
UsableColumns(headers, values) ==
    {i \in 1..Len(headers) : i <= Len(values) /\ values[i] # "" /\ values[i] # "N/A"}

\* the asset of a line: the usable columns only, each under the field of its header
ExpectedAsset(headers, values) ==
    LET usable   == UsableColumns(headers, values)
        field(i) == AssetField(headers[i])[1]
    IN  [p \in {field(i) : i \in usable} |->
            values[CHOOSE i \in usable :
                      field(i) = p /\ \A j \in usable : field(j) = p => j <= i]]

\* the data lines, by line index, that have a usable column
LinesWithData(headers, lines) ==
    SelectSeq([k \in 1..(Len(lines) - 1) |-> k + 1],
              LAMBDA k : UsableColumns(headers, AssetLineValues(lines[k])) # {})

RequiredAccountFields == {"requestor", "knoxId", "permission", "cloudPlatform"}

\* the value a data line has for a field: that of the last column whose header
\* names the field, empty when there is no such column or the line is too short
AccountFieldValue(headers, line, f) ==
    LET cells  == split(trim(line), ",")
        named  == {i \in 1..Len(headers) : AccountField(headers[i]) = <<f>>}
        column == CHOOSE i \in named : \A j \in named : j <= i
    IN  IF named = {} \/ column > Len(cells) THEN ""
        ELSE AccountValue(cells[column])

\* the data lines, by line index, whose four required fields are all non-empty
CompleteLines(headers, lines) ==
    SelectSeq([k \in 1..(Len(lines) - 1) |-> k + 1],
              LAMBDA k : \A f \in RequiredAccountFields :
                            AccountFieldValue(headers, lines[k], f) # "")

\* the step in which run i of handleImportCSV gets the text of its file
FileWasRead(i) == imports[i].pc = "reading" /\ importProgress' > importProgress

\* C29: for a file of at least two lines parseCSVData throws for no row: the rows
\* with requestor, knoxId, permission and cloudPlatform all non-empty are kept in
\* file order and the others omitted, and handleImportCSV then posts the accounts
\* that remain, an empty list included, without showing a toast.
C29_InvalidRowsOmitted ==
    [][\A i \in 1..Len(imports) :
          (FileWasRead(i) /\ Len(split(imports[i].file.content, "\n")) >= 2) =>
              LET lines   == split(imports[i].file.content, "\n")
                  headers == ParseHeaders(lines[1])
                  kept    == CompleteLines(headers, lines)
                  posted  == imports'[i].accounts
              IN  /\ imports'[i].pc = "posting"
                  /\ toasts' = toasts
                  /\ importStatus' = "uploading"
                  /\ Len(posted) = Len(kept)
                  /\ \A j \in 1..Len(kept) : \A f \in RequiredAccountFields :
                        posted[j][f] = AccountFieldValue(headers, lines[kept[j]], f)]_vars

\* an import of a file whose only row lacks the cloud platform has posted the
\* empty list and succeeded, and one of a file with one incomplete row of two
\* has posted the other row
C29_Witness ==
    /\ \E i \in 1..Len(imports) :
          /\ imports[i].file.name = "norows.csv"
          /\ imports[i].pc = "done"
          /\ imports[i].accounts = <<>>
    /\ \E i \in 1..Len(imports) :
          /\ imports[i].file.name = "gaps.csv"
          /\ imports[i].pc = "posting"
          /\ Len(imports[i].accounts) = 1
          /\ imports[i].accounts[1].requestor = "Bob"
    /\ \A i \in 1..Len(toasts) : toasts[i].variant # "destructive"

=============================================================================
